---- MODULE Spec2Model ----
(***************************************************************************)
(* Model of lddx (package lddx): the dependency crawler (DepsRead and the  *)
(* functions it calls) over a small, fixed file system, the magic check    *)
(* IsFatMachO over file contents, the projection for JSON                  *)
(* DepsGetJSONSerialisableVersion, and the collector: CollectDeps and      *)
(* FixupToplevels.                                                         *)
(*                                                                         *)
(* A path is the sequence of its "/"-separated components: "/lib/b" is     *)
(* <<"", "lib", "b">>, "@loader_path/d" is <<"@loader_path", "d">>, and the *)
(* empty string is <<>>.                                                    *)
(***************************************************************************)
EXTENDS Integers, Sequences, FiniteSets, TLC

VARIABLES files, opts, mainpc, fi, seenFiles, deps, nodes, lists, flat,
          tasks, stack, ti, limiter, wg, reads, descended, result,
          run, prev,
          probe, verdict,
          copts, folder, before, cpc, unvisited, visited, toCollect, toSend,
          jobs, results, workers, got, errors, tool, cresult, handled,
          json,
          fpc, fixed, fixes, fresult, crun

\* the variables of the crawler, of the magic check, of CollectDeps, of the
\* projection for JSON and of FixupToplevels
crawlVars == <<files, opts, mainpc, fi, seenFiles, deps, nodes, lists, flat,
               tasks, stack, ti, limiter, wg, reads, descended, result,
               run, prev>>

magicVars == <<probe, verdict>>

collectVars == <<copts, folder, before, cpc, unvisited, visited, toCollect,
                 toSend, jobs, results, workers, got, errors, tool, cresult,
                 handled>>

jsonVars == <<json>>

fixVars == <<fpc, fixed, fixes, fresult, crun>>

vars == <<crawlVars, magicVars, collectVars, jsonVars, fixVars>>

(***************************************************************************)
(* Bounds                                                                   *)
(***************************************************************************)
\* longest list of input files handed to DepsRead
MaxFiles == 2
\* largest value of the Jobs option
MaxJobs == 2
\* longest file content handed to IsFatMachO
MaxFileLen == 5
\* largest number of FlatDeps entries of a graph handed to CollectDeps
MaxLibs == 3

(***************************************************************************)
(* Paths                                                                    *)
(***************************************************************************)
NoPath == <<>>

\* the path components of the model, in ascending byte order of the strings
Alphabet == <<"", "@executable_path", "@loader_path", "@rpath", "a", "app",
              "b", "c", "d", "gone", "lib", "lnk", "nope", "sys", "t", "txt",
              "usr", "x">>

Ord(c) == CHOOSE i \in 1..Len(Alphabet) : Alphabet[i] = c

Min(a, b) == IF a < b THEN a ELSE b

\* string comparison p < q of two paths
PathLess(p, q) ==
    LET n == Min(Len(p), Len(q))
        diff == {i \in 1..n : p[i] # q[i]}
    IN IF diff = {}
       THEN Len(p) < Len(q)
       ELSE LET k == CHOOSE i \in diff : \A j \in diff : i <= j
            IN Ord(p[k]) < Ord(q[k])

\* strings.HasPrefix on whole components
HasPrefix(p, pre) ==
    /\ Len(pre) <= Len(p)
    /\ SubSeq(p, 1, Len(pre)) = pre

\* filepath.Base
Base(p) == IF p = <<>> THEN "" ELSE p[Len(p)]

\* filepath.Dir
Dir(p) == SubSeq(p, 1, Len(p) - 1)

(***************************************************************************)
(* The file system                                                          *)
(***************************************************************************)
PA   == <<"", "app", "a">>
PTxt == <<"", "app", "txt">>
PB   == <<"", "lib", "b">>
PC   == <<"", "lib", "c">>
PD   == <<"", "lib", "d">>
PT   == <<"", "lib", "t">>
PSys == <<"", "usr", "lib", "sys">>
PGone == <<"", "usr", "lib", "gone">>
PLnkA == <<"", "lnk", "a">>
PLnkC == <<"", "lnk", "c">>
PNope == <<"", "nope">>

Cwd == <<"", "app">>

\* file contents: a 64-bit Mach-O, a Fat file, a script ("#!/b")
HeadMachO == <<207, 250, 237, 254, 7>>
HeadFat   == <<202, 254, 186, 190, 0>>
HeadText  == <<35, 33, 47, 98>>

Lib(path, weak) == [Path |-> path, Weak |-> weak]

\* head:  the first bytes of the file
\* ident: the identity load command can be read (GetDylibInfo)
\* parse: the dylib load commands can be read (ReadDylibs)
\* libs:  the dylib records of all slices, in file order
FS == [p \in {PA, PTxt, PB, PC, PD, PT, PSys} |->
        CASE p = PA -> [head |-> HeadMachO, ident |-> TRUE, parse |-> TRUE,
                        libs |-> << Lib(PB, FALSE), Lib(PLnkC, FALSE),
                                    Lib(PSys, FALSE), Lib(PGone, FALSE),
                                    Lib(<<"@executable_path", "d">>, FALSE) >>]
          [] p = PB -> [head |-> HeadFat, ident |-> TRUE, parse |-> TRUE,
                        libs |-> << Lib(PC, TRUE), Lib(PC, TRUE),
                                    Lib(PA, FALSE),
                                    Lib(<<"@rpath", "x">>, FALSE) >>]
          [] p = PC -> [head |-> HeadMachO, ident |-> TRUE, parse |-> TRUE,
                        libs |-> << Lib(PB, FALSE),
                                    Lib(<<"@loader_path", "d">>, FALSE),
                                    Lib(PLnkA, FALSE) >>]
          [] p = PD -> [head |-> HeadMachO, ident |-> TRUE, parse |-> FALSE,
                        libs |-> << >>]
          [] p = PT -> [head |-> HeadMachO, ident |-> FALSE, parse |-> FALSE,
                        libs |-> << >>]
          [] p = PSys -> [head |-> HeadMachO, ident |-> TRUE, parse |-> TRUE,
                          libs |-> << >>]
          [] p = PTxt -> [head |-> HeadText, ident |-> FALSE, parse |-> FALSE,
                          libs |-> << >>]]

Symlinks == [p \in {PLnkA, PLnkC} |-> IF p = PLnkA THEN PA ELSE PC]

\* filepath.Abs
Abs(p) == IF p # <<>> /\ p[1] = "" THEN p ELSE Cwd \o p

\* filepath.EvalSymlinks: relative paths are looked up below the working
\* directory and stay relative
EvalSymlinks(p) ==
    LET a == Abs(p)
    IN IF a \in DOMAIN Symlinks
       THEN [ok |-> TRUE, path |-> Symlinks[a]]
       ELSE IF a \in DOMAIN FS
            THEN [ok |-> TRUE, path |-> p]
            ELSE [ok |-> FALSE, path |-> NoPath]

ResolveAbsPath(p) ==
    LET e == EvalSymlinks(p)
    IN IF ~e.ok THEN [ok |-> FALSE, path |-> e.path]
       ELSE [ok |-> TRUE, path |-> Abs(e.path)]

\* the file a (resolvable) path names
FileOf(p) == FS[ResolveAbsPath(p).path]

\* the magic numbers, a 32-bit value written <<high half, low half>>
mhMagic   == <<65261, 64206>>    \* 0xfeedface
mhCigam   == <<52986, 60926>>    \* 0xcefaedfe
mhMagic64 == <<65261, 64207>>    \* 0xfeedfacf
mhCigam64 == <<53242, 60926>>    \* 0xcffaedfe
fatMagic  == <<51966, 47806>>    \* 0xcafebabe
fatCigam  == <<48826, 65226>>    \* 0xbebafeca

\* binary.LittleEndian.Uint32
LittleEndianUint32(b) == <<b[4] * 256 + b[3], b[2] * 256 + b[1]>>

\* the comparison without the two Fat magics
isMagicOfMachO(magic) ==
    magic = mhMagic \/ magic = mhCigam \/ magic = mhMagic64 \/ magic = mhCigam64

\* "magic == mhMagic || ... || magic == fatCigam"
isMagic(magic) ==
    \/ magic = mhMagic \/ magic = mhCigam
    \/ magic = mhMagic64 \/ magic = mhCigam64
    \/ magic = fatMagic \/ magic = fatCigam

\* IsFatMachO on the file f: f.open tells whether os.Open succeeds,
\* f.readable whether Read gives no error but io.EOF, f.bytes is the content
IsFatMachOFile(f) ==
    IF ~f.open THEN [result |-> FALSE, err |-> TRUE]
    ELSE IF ~f.readable THEN [result |-> FALSE, err |-> TRUE]
    ELSE IF Len(f.bytes) < 4 THEN [result |-> FALSE, err |-> FALSE]
    ELSE [result |-> isMagic(LittleEndianUint32(SubSeq(f.bytes, 1, 4))),
          err |-> FALSE]

\* os.Open on a path of the file system
OpenFile(p) ==
    IF ResolveAbsPath(p).ok
    THEN [open |-> TRUE, readable |-> TRUE, bytes |-> FileOf(p).head]
    ELSE [open |-> FALSE, readable |-> FALSE, bytes |-> << >>]

IsFatMachO(file) == IsFatMachOFile(OpenFile(file)).result

GetDylibInfo(absPath) == FS[absPath].ident

ReadDylibsOK(file) == FS[file].parse

ReadDylibsLibs(file) == FS[file].libs

(***************************************************************************)
(* Options of a crawl                                                       *)
(***************************************************************************)
PUsrLib == <<"", "usr", "lib">>
PLib == <<"", "lib">>

\* the ignore policies and executable paths a crawl is run with
Policies ==
    { [ExecutablePath |-> NoPath, IgnoredPrefixes |-> <<PUsrLib>>,
       IgnoredFiles |-> << >>, SkipWeakLibs |-> FALSE],
      [ExecutablePath |-> PLib, IgnoredPrefixes |-> <<PUsrLib>>,
       IgnoredFiles |-> <<"x">>, SkipWeakLibs |-> TRUE] }

DependencyOptions ==
    { [ExecutablePath |-> pol.ExecutablePath,
       IgnoredPrefixes |-> pol.IgnoredPrefixes,
       IgnoredFiles |-> pol.IgnoredFiles,
       Recursive |-> r,
       SkipWeakLibs |-> pol.SkipWeakLibs,
       Jobs |-> j] : pol \in Policies, r \in BOOLEAN, j \in 0..MaxJobs }

\* the strings a caller passes as input files
InputFiles == {PA, PLnkA, PB, PTxt, PT, PNope}

SeqsUpTo(S, n) == UNION {[1..k -> S] : k \in 0..n}

(***************************************************************************)
(* Small helpers on functions                                               *)
(***************************************************************************)
Empty == [x \in {} |-> x]

Put(f, k, v) == [x \in DOMAIN f \cup {k} |-> IF x = k THEN v ELSE f[x]]

Range(s) == {s[i] : i \in DOMAIN s}

\* nil pointer to a children list / nil node id
Nil == << >>

(***************************************************************************)
(* Path resolution and pruning (dependencies.go)                            *)
(***************************************************************************)
\* strings.HasPrefix(path, "@"): the components that begin with "@"
IsSpecialPath(path) ==
    /\ path # <<>>
    /\ path[1] \in {"@executable_path", "@loader_path", "@rpath"}

\* dep is the referring node (a Dependency record)
resolvePath(path, dep) ==
    IF IsSpecialPath(path)
    THEN IF path[1] = "@executable_path" /\ Len(path) > 1
         THEN IF opts.ExecutablePath = NoPath
              THEN [ok |-> FALSE, path |-> path]
              ELSE ResolveAbsPath(opts.ExecutablePath \o Tail(path))
         ELSE IF path[1] = "@loader_path" /\ Len(path) > 1
              THEN ResolveAbsPath(Dir(dep.RealPath) \o Tail(path))
              ELSE [ok |-> FALSE, path |-> path]
    ELSE ResolveAbsPath(path)

matchesIgnoredPrefixes(path) ==
    \E k \in 1..Len(opts.IgnoredPrefixes) :
        HasPrefix(path, opts.IgnoredPrefixes[k])

\* the Dependency record pruneDep starts from
NewDependency(lib) ==
    [Name |-> Base(lib.Path), Path |-> lib.Path, RealPath |-> lib.Path,
     Pruned |-> FALSE, PrunedByFlatDeps |-> FALSE, NotResolved |-> FALSE,
     IsWeakDep |-> lib.Weak, Deps |-> Nil]

\* the top-level check of pruneDep: ret.RealPath is still the declared path
matchesTopDep(ret) ==
    \E k \in 1..Len(deps) :
        \/ nodes[deps[k]].Path = ret.Path
        \/ nodes[deps[k]].RealPath = ret.RealPath

\* outcome of pruneDep:
\*   kind "new":      a new node dep is returned
\*   kind "insert":   a new node dep is returned and stored in FlatDeps
\*   kind "existing": the node id already in FlatDeps is returned
Outcome(kind, dep, id, pruned) ==
    [kind |-> kind, dep |-> dep, id |-> id, pruned |-> pruned]

\* the branch of pruneDep taken when FlatDeps already has ret.RealPath
existingDepBug(existing, ret) ==
    Outcome("existing", ret, existing, TRUE)

existingDepAgain(existing, ret) ==
    IF nodes[existing].Path # ret.Path
    THEN Outcome("new", [ret EXCEPT !.Deps = nodes[existing].Deps], Nil, TRUE)
    ELSE Outcome("existing", ret, existing, FALSE)

\* the alias marked as pruned
existingDepFlagged(existing, ret) ==
    IF nodes[existing].Path # ret.Path
    THEN Outcome("new", [ret EXCEPT !.Deps = nodes[existing].Deps,
                                    !.Pruned = TRUE], Nil, TRUE)
    ELSE Outcome("existing", ret, existing, TRUE)

existingDep(existing, ret) ==
    IF nodes[existing].Path # ret.Path
    THEN Outcome("new", [ret EXCEPT !.Deps = nodes[existing].Deps], Nil, TRUE)
    ELSE Outcome("existing", ret, existing, TRUE)

\* "ret.Pruned = true"
markPrunedNot(ret) == ret

markPruned(ret) == [ret EXCEPT !.Pruned = TRUE]

\* the unresolved candidate left unmarked
markNotResolvedNot(ret) == ret

\* "ret.NotResolved = true"
markNotResolved(ret) == [ret EXCEPT !.NotResolved = TRUE]

\* "if lib.Weak && opts.SkipWeakLibs"
skipsWeakNever(lib) == FALSE

skipsWeak(lib) == lib.Weak /\ opts.SkipWeakLibs

\* "else if realPath != lib.Path { ret.RealPath = realPath }"
withRealPathKept(ret, realPath) == ret

withRealPath(ret, realPath) ==
    IF realPath # ret.Path THEN [ret EXCEPT !.RealPath = realPath] ELSE ret

\* the lookup finds nothing, whatever FlatDeps holds
processedNever(realPath) == FALSE

\* "existingDep, processed := graph.FlatDeps[ret.RealPath]", under fdLock
processed(realPath) == realPath \in DOMAIN flat

\* parent is the node id of the referring node, newId the id of the node
\* pruneDep allocates
pruneDep(lib, parent, newId) ==
    LET ret == NewDependency(lib)
        r == resolvePath(lib.Path, nodes[parent])
        resolved == withRealPath(ret, r.path)
    IN IF skipsWeak(lib)
       THEN Outcome("new", markPruned(ret), Nil, TRUE)
       ELSE IF \E k \in 1..Len(opts.IgnoredFiles) :
                    ret.Name = opts.IgnoredFiles[k]
       THEN Outcome("new", markPruned(ret), Nil, TRUE)
       ELSE IF matchesTopDep(ret)
       THEN Outcome("new", markPruned(ret), Nil, TRUE)
       ELSE IF ~r.ok
       THEN Outcome("new", markNotResolved(ret), Nil, TRUE)
       ELSE IF \/ matchesIgnoredPrefixes(resolved.Path)
               \/ /\ resolved.Path # resolved.RealPath
                  /\ matchesIgnoredPrefixes(resolved.RealPath)
       THEN Outcome("new", markPruned(resolved), Nil, TRUE)
       ELSE IF ~processed(resolved.RealPath)
       THEN Outcome("insert", [resolved EXCEPT !.Deps = newId], newId, FALSE)
       ELSE existingDep(flat[resolved.RealPath], resolved)

\* ByPath.Less
Less(a, b) == PathLess(nodes[a].Path, nodes[b].Path)

RECURSIVE SortByPath(_)

\* the slice left as it was appended
Unsorted(s) == s

\* sort.Sort(ByPath(s)): insertion of each element into the sorted rest
SortByPath(s) ==
    IF s = << >> THEN << >>
    ELSE CHOOSE sorted \in
            { LET x == Head(s)
                  k == Cardinality({i \in 1..Len(rest) : Less(rest[i], x)})
              IN SubSeq(rest, 1, k) \o <<x>>
                     \o SubSeq(rest, k + 1, Len(rest)) :
                rest \in {SortByPath(Tail(s))} } : TRUE

(***************************************************************************)
(* State                                                                    *)
(*   files      the input list of DepsRead                                  *)
(*   mainpc     position of DepsRead: "norm" (the loop over files), "seq"   *)
(*              (the sequential loop over TopDeps), "wait" (wg.Wait),       *)
(*              "returned", "error"                                         *)
(*   fi         index of the next file of the normalisation loop            *)
(*   deps       the local slice deps / graph.TopDeps, as node ids           *)
(*   nodes      the heap of Dependency records, by node id; a top-level is  *)
(*              <<k>>, the node allocated by task t for record i of its     *)
(*              file is Append(t, i)                                        *)
(*   lists      the heap of children slices ([]*Dependency), named by the   *)
(*              id of the node that allocated them                          *)
(*   flat       graph.FlatDeps, real path -> node id                        *)
(*   tasks      the depsRead invocations, by the node they crawl            *)
(*   stack      the call stack of depsRead in sequential mode               *)
(*   ti         index of the next top-level of the sequential loop          *)
(*   limiter    number of tokens in the limiter channel                     *)
(*   wg         counter of the wait group                                   *)
(*   reads      number of ReadDylibs invocations per file                   *)
(*   descended  the (parent, child) pairs depsRead was started for          *)
(*   result     what DepsRead returned: "none" yet, "graph" or "error"      *)
(*   run, prev  number of the current DepsRead call and the graph the       *)
(*              previous call returned                                      *)
(***************************************************************************)

\* DepsRead takes the sequential branch
Sequential == ~opts.Recursive \/ opts.Jobs <= 1

NewTask == [pc |-> "pending", i |-> 1, observed |-> {}, todo |-> << >>]

\* no call of IsFatMachO under way
NoProbe == [open |-> FALSE, readable |-> FALSE, bytes |-> << >>]

IdleMagic ==
    /\ probe = NoProbe
    /\ verdict = << >>

\* no call of DepsGetJSONSerialisableVersion made
IdleJSON == json = << >>

\* no call of FixupToplevels under way, and none made
IdleFix ==
    /\ fpc = "idle"
    /\ fixed = << >>
    /\ fixes = {}
    /\ fresult = "none"
    /\ crun = 1

\* no call of CollectDeps under way
IdleCollect ==
    /\ copts = Empty
    /\ folder = Empty
    /\ before = Empty
    /\ cpc = "idle"
    /\ unvisited = {}
    /\ visited = << >>
    /\ toCollect = Empty
    /\ toSend = {}
    /\ jobs = << >>
    /\ results = << >>
    /\ workers = Empty
    /\ got = 0
    /\ errors = << >>
    /\ tool = {}
    /\ cresult = "none"
    /\ handled = Empty

Init ==
    /\ files \in SeqsUpTo(InputFiles, MaxFiles)
    /\ opts \in DependencyOptions
    /\ mainpc = "norm"
    /\ fi = 1
    /\ seenFiles = {}
    /\ deps = << >>
    /\ nodes = Empty
    /\ lists = Empty
    /\ flat = Empty
    /\ tasks = Empty
    /\ stack = << >>
    /\ ti = 1
    /\ limiter = 0
    /\ wg = 0
    /\ reads = Empty
    /\ descended = {}
    /\ result = "none"
    /\ run = 1
    /\ prev = Empty
    /\ IdleMagic
    /\ IdleCollect
    /\ IdleJSON
    /\ IdleFix

(***************************************************************************)
(* DepsRead: input normalisation                                            *)
(***************************************************************************)
\* the checks of one input file all pass
InputOK(file) ==
    /\ ResolveAbsPath(file).ok
    /\ IsFatMachO(file)
    /\ GetDylibInfo(ResolveAbsPath(file).path)

\* the key of seenFiles
SeenKey(file, absPath) == file

\* the top-level node of an input
TopDependency(file, absPath, id) ==
    [Name |-> Base(file), Path |-> file,
     RealPath |-> IF absPath # file THEN absPath ELSE file,
     Pruned |-> FALSE, PrunedByFlatDeps |-> FALSE, NotResolved |-> FALSE,
     IsWeakDep |-> FALSE, Deps |-> id]

\* what a failed check of files[fi] does: "return nil, err"
OnInputErrorSkip(pc, i) == [mainpc |-> pc, fi |-> i + 1, result |-> "none"]

OnInputError(pc, i) == [mainpc |-> "error", fi |-> i, result |-> "error"]

NormaliseFail ==
    /\ mainpc = "norm"
    /\ fi <= Len(files)
    /\ ~InputOK(files[fi])
    /\ LET e == OnInputError(mainpc, fi)
       IN /\ mainpc' = e.mainpc
          /\ fi' = e.fi
          /\ result' = e.result
    /\ UNCHANGED <<files, opts, seenFiles, deps, nodes, lists, flat, tasks,
                   stack, ti, limiter, wg, reads, descended, run, prev>>
    /\ UNCHANGED <<magicVars, collectVars, jsonVars, fixVars>>

Normalise ==
    /\ mainpc = "norm"
    /\ fi <= Len(files)
    /\ InputOK(files[fi])
    /\ LET file == files[fi]
           absPath == ResolveAbsPath(file).path
           id == <<Len(deps) + 1>>
       IN IF SeenKey(file, absPath) \notin seenFiles
          THEN /\ nodes' = Put(nodes, id, TopDependency(file, absPath, id))
               /\ lists' = Put(lists, id, << >>)
               /\ deps' = Append(deps, id)
               /\ seenFiles' = seenFiles \cup {SeenKey(file, absPath)}
          ELSE UNCHANGED <<nodes, lists, deps, seenFiles>>
    /\ fi' = fi + 1
    /\ UNCHANGED <<files, opts, mainpc, flat, tasks, stack, ti, limiter, wg,
                   reads, descended, result, run, prev>>
    /\ UNCHANGED <<magicVars, collectVars, jsonVars, fixVars>>

\* "if deps == nil": no files specified
NoFiles ==
    /\ mainpc = "norm"
    /\ fi > Len(files)
    /\ deps = << >>
    /\ mainpc' = "error"
    /\ result' = "error"
    /\ UNCHANGED <<files, opts, fi, seenFiles, deps, nodes, lists, flat,
                   tasks, stack, ti, limiter, wg, reads, descended, run,
                   prev>>
    /\ UNCHANGED <<magicVars, collectVars, jsonVars, fixVars>>

(***************************************************************************)
(* DepsRead: starting the crawl                                             *)
(***************************************************************************)
\* the sequential branch: the loop over TopDeps starts
StartSequential ==
    /\ mainpc = "norm"
    /\ fi > Len(files)
    /\ deps # << >>
    /\ Sequential
    /\ mainpc' = "seq"
    /\ ti' = 1
    /\ UNCHANGED <<files, opts, fi, seenFiles, deps, nodes, lists, flat,
                   tasks, stack, limiter, wg, reads, descended, result, run,
                   prev>>
    /\ UNCHANGED <<magicVars, collectVars, jsonVars, fixVars>>

\* the parallel branch: the limiter is filled, and wg.Add(1); go depsRead
\* for every top-level
StartParallel ==
    /\ mainpc = "norm"
    /\ fi > Len(files)
    /\ deps # << >>
    /\ ~Sequential
    /\ limiter' = opts.Jobs
    /\ wg' = Len(deps)
    /\ tasks' = [t \in Range(deps) |-> NewTask]
    /\ mainpc' = "wait"
    /\ UNCHANGED <<files, opts, fi, seenFiles, deps, nodes, lists, flat,
                   stack, ti, reads, descended, result, run, prev>>
    /\ UNCHANGED <<magicVars, collectVars, jsonVars, fixVars>>

\* the sequential loop calls depsRead(dep, graph, &opts, nil, nil)
CallTop ==
    /\ mainpc = "seq"
    /\ stack = << >>
    /\ ti <= Len(deps)
    /\ tasks' = Put(tasks, deps[ti], NewTask)
    /\ stack' = <<deps[ti]>>
    /\ ti' = ti + 1
    /\ UNCHANGED <<files, opts, mainpc, fi, seenFiles, deps, nodes, lists,
                   flat, limiter, wg, reads, descended, result, run, prev>>
    /\ UNCHANGED <<magicVars, collectVars, jsonVars, fixVars>>

\* DepsRead returns the graph: after the sequential loop, or after wg.Wait()
Return ==
    /\ \/ mainpc = "seq" /\ stack = << >> /\ ti > Len(deps)
       \/ mainpc = "wait" /\ wg = 0
    /\ mainpc' = "returned"
    /\ result' = "graph"
    /\ UNCHANGED <<files, opts, fi, seenFiles, deps, nodes, lists, flat,
                   tasks, stack, ti, limiter, wg, reads, descended, run,
                   prev>>
    /\ UNCHANGED <<magicVars, collectVars, jsonVars, fixVars>>

(***************************************************************************)
(* depsRead                                                                 *)
(***************************************************************************)
\* depsRead(t) can take a step: any goroutine in parallel mode, the
\* innermost call in sequential mode
Active(t) ==
    /\ t \in DOMAIN tasks
    /\ Sequential => (stack # << >> /\ stack[Len(stack)] = t)

\* "<-limiter" can proceed
LimiterReadyAlways(l) == TRUE

LimiterReady(l) == l > 0

\* wg after the wg.Add(1) of n started goroutines and the deferred wg.Done()
WgAfterNoAdd(w, n) == w - 1

WgAfter(w, n) == w + n - 1

\* the node after ReadDylibs failed
ParseFailedUnmarked(dep) == dep

ParseFailed(dep) == [dep EXCEPT !.NotResolved = TRUE]

\* the sub-dependencies depsRead is started for
ToProcessButLast(todo) ==
    IF opts.Recursive /\ todo # << >>
    THEN SubSeq(todo, 1, Len(todo) - 1) ELSE << >>

ToProcessAlways(todo) == todo

ToProcess(todo) == IF opts.Recursive THEN todo ELSE << >>

Count(f, k) == IF k \in DOMAIN f THEN f[k] ELSE 0

\* ReadDylibs returns and keeps its token
releaseLimiterNever(l) == l

\* "defer func() { limiter <- 1 }()" runs when ReadDylibs returns
releaseLimiter(l) == l + 1

\* ReadDylibs is called and takes a token from the limiter (if there is one)
Acquire(t) ==
    /\ Active(t)
    /\ tasks[t].pc = "pending"
    /\ IF Sequential
       THEN UNCHANGED limiter
       ELSE /\ LimiterReady(limiter)
            /\ limiter' = limiter - 1
    /\ tasks' = [tasks EXCEPT ![t].pc = "parsing"]
    /\ reads' = Put(reads, nodes[t].RealPath,
                    Count(reads, nodes[t].RealPath) + 1)
    /\ UNCHANGED <<files, opts, mainpc, fi, seenFiles, deps, nodes, lists,
                   flat, stack, ti, wg, descended, result, run, prev>>
    /\ UNCHANGED <<magicVars, collectVars, jsonVars, fixVars>>

\* ReadDylibs fails: the token goes back, the node is marked and depsRead
\* returns (wg.Done)
ParseFail(t) ==
    /\ Active(t)
    /\ tasks[t].pc = "parsing"
    /\ ~ReadDylibsOK(nodes[t].RealPath)
    /\ nodes' = [nodes EXCEPT ![t] = ParseFailed(@)]
    /\ tasks' = [tasks EXCEPT ![t].pc = "done"]
    /\ IF Sequential
       THEN /\ stack' = SubSeq(stack, 1, Len(stack) - 1)
            /\ UNCHANGED <<limiter, wg>>
       ELSE /\ limiter' = releaseLimiter(limiter)
            /\ wg' = WgAfter(wg, 0)
            /\ UNCHANGED stack
    /\ UNCHANGED <<files, opts, mainpc, fi, seenFiles, deps, lists, flat, ti,
                   reads, descended, result, run, prev>>
    /\ UNCHANGED <<magicVars, collectVars, jsonVars, fixVars>>

\* ReadDylibs returns the records: the token goes back
ParseOK(t) ==
    /\ Active(t)
    /\ tasks[t].pc = "parsing"
    /\ ReadDylibsOK(nodes[t].RealPath)
    /\ tasks' = [tasks EXCEPT ![t].pc = "loop"]
    /\ IF Sequential
       THEN UNCHANGED limiter
       ELSE limiter' = releaseLimiter(limiter)
    /\ UNCHANGED <<files, opts, mainpc, fi, seenFiles, deps, nodes, lists,
                   flat, stack, ti, wg, reads, descended, result, run, prev>>
    /\ UNCHANGED <<magicVars, collectVars, jsonVars, fixVars>>

\* one iteration of "for _, lib := range libs"
Observe(t) ==
    /\ Active(t)
    /\ tasks[t].pc = "loop"
    /\ tasks[t].i <= Len(ReadDylibsLibs(nodes[t].RealPath))
    /\ LET i == tasks[t].i
           lib == ReadDylibsLibs(nodes[t].RealPath)[i]
           newId == Append(t, i)
       IN \E o \in {pruneDep(lib, t, newId)} :
          LET subDep == IF o.kind = "existing" THEN o.id ELSE newId IN
          IF lib.Path \in tasks[t].observed
          THEN /\ tasks' = [tasks EXCEPT ![t].i = i + 1]
               /\ UNCHANGED <<nodes, lists, flat>>
          ELSE /\ nodes' = IF o.kind = "existing" THEN nodes
                           ELSE Put(nodes, newId, o.dep)
               /\ flat' = IF o.kind = "insert"
                          THEN Put(flat, o.dep.RealPath, newId) ELSE flat
               /\ lists' = LET l == IF o.kind = "insert"
                                    THEN Put(lists, newId, << >>) ELSE lists
                           IN [l EXCEPT ![nodes[t].Deps] = Append(@, subDep)]
               /\ tasks' = [tasks EXCEPT
                              ![t].i = i + 1,
                              ![t].observed = @ \cup {lib.Path},
                              ![t].todo = IF o.pruned THEN @
                                          ELSE Append(@, subDep)]
    /\ UNCHANGED <<files, opts, mainpc, fi, seenFiles, deps, stack, ti,
                   limiter, wg, reads, descended, result, run, prev>>
    /\ UNCHANGED <<magicVars, collectVars, jsonVars, fixVars>>

\* after the loop: sort.Sort(ByPath(*dep.Deps)); in parallel mode the
\* goroutines of the sub-dependencies are started and depsRead returns
Finish(t) ==
    /\ Active(t)
    /\ tasks[t].pc = "loop"
    /\ tasks[t].i > Len(ReadDylibsLibs(nodes[t].RealPath))
    /\ lists' = [lists EXCEPT ![nodes[t].Deps] = SortByPath(@)]
    /\ LET sub == ToProcess(tasks[t].todo)
       IN IF Sequential
          THEN /\ tasks' = [tasks EXCEPT ![t].pc = "calls", ![t].todo = sub]
               /\ UNCHANGED <<wg, descended>>
          ELSE /\ tasks' = [x \in DOMAIN tasks \cup Range(sub) |->
                              IF x \in Range(sub) THEN NewTask
                              ELSE IF x = t
                                   THEN [tasks[t] EXCEPT !.pc = "done"]
                                   ELSE tasks[x]]
               /\ wg' = WgAfter(wg, Len(sub))
               /\ descended' = descended \cup {<<t, c>> : c \in Range(sub)}
    /\ UNCHANGED <<files, opts, mainpc, fi, seenFiles, deps, nodes, flat,
                   stack, ti, limiter, reads, result, run, prev>>
    /\ UNCHANGED <<magicVars, collectVars, jsonVars, fixVars>>

\* sequential mode: the recursive call depsRead(subDep, ...)
CallSub(t) ==
    /\ Active(t)
    /\ tasks[t].pc = "calls"
    /\ tasks[t].todo # << >>
    /\ LET c == Head(tasks[t].todo)
       IN /\ tasks' = [x \in DOMAIN tasks \cup {c} |->
                         IF x = c THEN NewTask
                         ELSE IF x = t
                              THEN [tasks[t] EXCEPT !.todo = Tail(@)]
                              ELSE tasks[x]]
          /\ stack' = Append(stack, c)
          /\ descended' = descended \cup {<<t, c>>}
    /\ UNCHANGED <<files, opts, mainpc, fi, seenFiles, deps, nodes, lists,
                   flat, ti, limiter, wg, reads, result, run, prev>>
    /\ UNCHANGED <<magicVars, collectVars, jsonVars, fixVars>>

\* sequential mode: depsRead returns to its caller
ReturnSub(t) ==
    /\ Active(t)
    /\ tasks[t].pc = "calls"
    /\ tasks[t].todo = << >>
    /\ tasks' = [tasks EXCEPT ![t].pc = "done"]
    /\ stack' = SubSeq(stack, 1, Len(stack) - 1)
    /\ UNCHANGED <<files, opts, mainpc, fi, seenFiles, deps, nodes, lists,
                   flat, ti, limiter, wg, reads, descended, result, run,
                   prev>>
    /\ UNCHANGED <<magicVars, collectVars, jsonVars, fixVars>>

(***************************************************************************)
(* The returned graph, as a caller can observe it                           *)
(***************************************************************************)
\* the children of a node: *dep.Deps
Children(id) == IF nodes[id].Deps = Nil THEN << >> ELSE lists[nodes[id].Deps]

NodeView(id) ==
    [Path |-> nodes[id].Path, RealPath |-> nodes[id].RealPath,
     Name |-> nodes[id].Name, IsWeakDep |-> nodes[id].IsWeakDep,
     Pruned |-> nodes[id].Pruned, NotResolved |-> nodes[id].NotResolved]

TreeView(id) ==
    [node |-> NodeView(id),
     children |-> [j \in 1..Len(Children(id)) |-> NodeView(Children(id)[j])]]

GraphView ==
    [top |-> [k \in 1..Len(deps) |-> TreeView(deps[k])],
     flat |-> [p \in DOMAIN flat |-> TreeView(flat[p])]]

\* the caller calls DepsRead again with the same options and files
Rerun ==
    /\ mainpc = "returned"
    /\ run = 1
    /\ run' = 2
    /\ prev' = GraphView
    /\ mainpc' = "norm"
    /\ fi' = 1
    /\ seenFiles' = {}
    /\ deps' = << >>
    /\ nodes' = Empty
    /\ lists' = Empty
    /\ flat' = Empty
    /\ tasks' = Empty
    /\ stack' = << >>
    /\ ti' = 1
    /\ limiter' = 0
    /\ wg' = 0
    /\ reads' = Empty
    /\ descended' = {}
    /\ result' = "none"
    /\ UNCHANGED <<files, opts>>
    /\ UNCHANGED <<magicVars, collectVars, jsonVars, fixVars>>

(***************************************************************************)
(* Specifications                                                           *)
(***************************************************************************)
TaskIds == DOMAIN tasks

Next ==
    \/ NormaliseFail
    \/ Normalise
    \/ NoFiles
    \/ StartSequential
    \/ StartParallel
    \/ CallTop
    \/ Return
    \/ \E t \in TaskIds : Acquire(t)
    \/ \E t \in TaskIds : ParseFail(t)
    \/ \E t \in TaskIds : ParseOK(t)
    \/ \E t \in TaskIds : Observe(t)
    \/ \E t \in TaskIds : Finish(t)
    \/ \E t \in TaskIds : CallSub(t)
    \/ \E t \in TaskIds : ReturnSub(t)

\* one call of DepsRead
Spec == Init /\ [][Next]_vars

\* one call of DepsRead whose goroutines are scheduled: a step that can be
\* taken is taken in the end
SpecFair == Spec /\ WF_vars(Next)

NextTwice == Next \/ Rerun

\* two calls of DepsRead on the same inputs
SpecTwice == Init /\ [][NextTwice]_vars

\* no call of DepsRead under way
IdleCrawl ==
    /\ files = << >>
    /\ opts = Empty
    /\ mainpc = "idle"
    /\ fi = 1
    /\ seenFiles = {}
    /\ deps = << >>
    /\ nodes = Empty
    /\ lists = Empty
    /\ flat = Empty
    /\ tasks = Empty
    /\ stack = << >>
    /\ ti = 1
    /\ limiter = 0
    /\ wg = 0
    /\ reads = Empty
    /\ descended = {}
    /\ result = "none"
    /\ run = 1
    /\ prev = Empty

(***************************************************************************)
(* IsFatMachO on its own: one call on a file of any content                 *)
(***************************************************************************)
\* the bytes of the six magics, and a zero byte
MagicBytes == {254, 237, 250, 206, 207, 202, 186, 190, 0}

\* a file that does not exist, a file that cannot be read (a directory), and
\* the regular files of up to MaxFileLen bytes
Probes ==
    {NoProbe, [open |-> TRUE, readable |-> FALSE, bytes |-> << >>]}
        \cup {[open |-> TRUE, readable |-> TRUE, bytes |-> b] :
                b \in SeqsUpTo(MagicBytes, MaxFileLen)}

InitMagic ==
    /\ IdleCrawl
    /\ IdleCollect
    /\ IdleJSON
    /\ IdleFix
    /\ probe \in Probes
    /\ verdict = << >>

CallIsFatMachO ==
    /\ verdict = << >>
    /\ verdict' = <<IsFatMachOFile(probe)>>
    /\ UNCHANGED <<probe, crawlVars, collectVars, jsonVars, fixVars>>

NextMagic == CallIsFatMachO

SpecMagic == InitMagic /\ [][NextMagic]_vars

(***************************************************************************)
(* The collector (collector.go)                                             *)
(*   copts      the CollectorOptions; Folder is POut                        *)
(*   folder     the files of the destination folder, by name                *)
(*   before     the destination folder when CollectDeps was called          *)
(*   cpc        position of CollectDeps: "select" (the loop over FlatDeps), *)
(*              "enqueue" (the loop sending the jobs), "collect" (the loop  *)
(*              receiving the results), "done"                              *)
(*   unvisited  the keys of FlatDeps the selection loop has yet to visit    *)
(*   visited    the keys it has visited, in the order of the visits, while *)
(*              the loop runs                                               *)
(*   toCollect  the map toCollect, name -> node id                          *)
(*   toSend     the names of toCollect the enqueue loop has yet to send     *)
(*   jobs       the channel jobs, results the channel results               *)
(*   workers    the collectorWorker goroutines: pc and errList              *)
(*   got        number of results received, errors the slice errors         *)
(*   tool       the invocations of install_name_tool by the workers         *)
(*   handled    how often the workers have processed a job, by node id      *)
(*   cresult    what CollectDeps returned: "none", "ok", "error"            *)
(***************************************************************************)
POut == <<"", "out">>
PW   == <<"", "app", "w.dylib">>
POpt == <<"", "opt">>
PUsr == <<"", "usr">>
PUsrLocal == <<"", "usr", "local">>

\* fmt.Sprintf("compatibility version %d.%d.%d, current version %d.%d.%d")
Version(v) == <<v \div 65536, (v \div 256) % 256, v % 256>>

Info(compat, current) == <<Version(compat), Version(current)>>

\* the libraries a collected graph is made of, in the order of their declared
\* paths; needs: the libraries a library loads. /opt/v.dylib is a symbolic
\* link to /opt/z.dylib.
Libraries ==
    << [Path |-> <<"", "Library", "Q">>, RealPath |-> <<"", "Library", "Q">>,
        Compat |-> 65536, Current |-> 327680, needs |-> {}],
       [Path |-> <<"", "home", "z.dylib">>,
        RealPath |-> <<"", "home", "z.dylib">>,
        Compat |-> 65536, Current |-> 65792, needs |-> {}],
       [Path |-> <<"", "opt", "v.dylib">>,
        RealPath |-> <<"", "opt", "z.dylib">>,
        Compat |-> 65536, Current |-> 65792, needs |-> {}],
       [Path |-> <<"", "opt", "w.dylib">>,
        RealPath |-> <<"", "opt", "w.dylib">>,
        Compat |-> 65536, Current |-> 65536, needs |-> {}],
       [Path |-> <<"", "opt", "x.dylib">>,
        RealPath |-> <<"", "opt", "x.dylib">>,
        Compat |-> 65536, Current |-> 196608, needs |-> {3}],
       [Path |-> <<"", "opt", "y.dylib">>,
        RealPath |-> <<"", "opt", "y.dylib">>,
        Compat |-> 65536, Current |-> 131072, needs |-> {4, 7}],
       [Path |-> <<"", "opt", "z.dylib">>,
        RealPath |-> <<"", "opt", "z.dylib">>,
        Compat |-> 65536, Current |-> 65792, needs |-> {}],
       [Path |-> <<"", "usr", "local", "z.dylib">>,
        RealPath |-> <<"", "usr", "local", "z.dylib">>,
        Compat |-> 65536, Current |-> 66048, needs |-> {}],
       [Path |-> <<"@loader_path", "s.dylib">>,
        RealPath |-> <<"", "app", "s.dylib">>,
        Compat |-> 65536, Current |-> 65536, needs |-> {1}] >>

\* filepath.Ext of a name of the file system
Ext(name) == IF name \in {"a", "Q", "sys", "x"} THEN "" ELSE ".dylib"

\* sets of libraries that hold what their members load
LibrarySets ==
    {S \in SUBSET (1..Len(Libraries)) :
        /\ Cardinality(S) <= MaxLibs
        /\ \A k \in S : Libraries[k].needs \subseteq S}

\* the k-th element of a set of numbers, in ascending order
RECURSIVE Ascending(_)
Ascending(S) ==
    IF S = {} THEN << >>
    ELSE LET m == CHOOSE x \in S : \A y \in S : x <= y
         IN <<m>> \o Ascending(S \ {m})

\* the library of S whose node holds the FlatDeps entry of the real path of
\* library k: /app/a loads a library by its real path before it loads it by
\* a symbolic link
Owner(S, k) ==
    LET same == {j \in S : Libraries[j].RealPath = Libraries[k].RealPath}
        direct == {j \in same : Libraries[j].Path = Libraries[j].RealPath}
    IN IF direct # {} THEN CHOOSE j \in direct : TRUE
       ELSE CHOOSE j \in same : \A i \in same : j <= i

\* the node of library k as pruneDep made it when /app/a was crawled
LibraryNode(k) ==
    [Name |-> Base(Libraries[k].Path), Path |-> Libraries[k].Path,
     RealPath |-> Libraries[k].RealPath,
     Info |-> Info(Libraries[k].Compat, Libraries[k].Current),
     Pruned |-> FALSE, PrunedByFlatDeps |-> FALSE, NotResolved |-> FALSE,
     IsWeakDep |-> FALSE, Deps |-> <<1, k>>]

\* the top-level nodes: the executable /app/a, which loads every library,
\* and the library /app/w.dylib, which loads none
TopNode(k) ==
    IF k = 1
    THEN [Name |-> "a", Path |-> PA, RealPath |-> PA, Info |-> << >>,
          Pruned |-> FALSE, PrunedByFlatDeps |-> FALSE, NotResolved |-> FALSE,
          IsWeakDep |-> FALSE, Deps |-> <<1>>]
    ELSE [Name |-> "w.dylib", Path |-> PW, RealPath |-> PW,
          Info |-> Info(65536, 65536),
          Pruned |-> FALSE, PrunedByFlatDeps |-> FALSE, NotResolved |-> FALSE,
          IsWeakDep |-> FALSE, Deps |-> <<2>>]

\* the children that are in no FlatDeps entry of their own: /usr/lib/sys,
\* pruned for its ignored prefix, and @rpath/x, not resolved, which /app/a
\* and /opt/x.dylib load, and @loader_path/z.dylib, by which /opt/x.dylib
\* loads /opt/z.dylib a second time
Stub(kind) ==
    [Name |-> CASE kind = "sys" -> "sys" [] kind = "rpath" -> "x"
                [] OTHER -> "z.dylib",
     Path |-> CASE kind = "sys" -> PSys [] kind = "rpath" -> <<"@rpath", "x">>
                [] OTHER -> <<"@loader_path", "z.dylib">>,
     RealPath |-> CASE kind = "sys" -> PSys
                    [] kind = "rpath" -> <<"@rpath", "x">>
                    [] OTHER -> <<"", "opt", "z.dylib">>,
     Info |-> Info(65536, 65792),
     Pruned |-> kind = "sys", PrunedByFlatDeps |-> FALSE,
     NotResolved |-> kind = "rpath", IsWeakDep |-> FALSE, Deps |-> Nil]

\* the ids of the nodes of Stub: children 10 and 11 of /app/a, children 1
\* to 3 of the node of /opt/x.dylib
StubIds(S) ==
    {<<1, 10>>, <<1, 11>>}
        \cup (IF 5 \in S THEN {<<1, 5, 1>>, <<1, 5, 2>>, <<1, 5, 3>>} ELSE {})

StubNode(S, n) ==
    IF n \in {<<1, 10>>, <<1, 5, 1>>} THEN Stub("sys")
    ELSE IF n \in {<<1, 11>>, <<1, 5, 3>>} THEN Stub("rpath")
    ELSE [Stub("loader") EXCEPT !.Deps = <<1, Owner(S, 3)>>]

\* the graph DepsRead returns for the inputs /app/a and /app/w.dylib when
\* the libraries of S are what /app/a depends on; a node that found its real
\* path in FlatDeps shares the children of the node held there
GraphNodes(S) ==
    [n \in {<<1>>, <<2>>} \cup {<<1, k>> : k \in S} \cup StubIds(S) |->
        IF Len(n) = 1 THEN TopNode(n[1])
        ELSE IF n \in StubIds(S) THEN StubNode(S, n)
        ELSE [LibraryNode(n[2]) EXCEPT !.Deps = <<1, Owner(S, n[2])>>]]

\* the children slices, each in the order of the declared paths
GraphLists(S) ==
    [n \in {<<1>>, <<2>>} \cup {<<1, Owner(S, k)>> : k \in S} |->
        LET ids(T) == [i \in 1..Cardinality(T) |-> <<1, Ascending(T)[i]>>]
        IN IF n = <<1>>
           THEN ids({k \in S : k <= 7}) \o << <<1, 10>> >>
                    \o ids({k \in S : k > 7}) \o << <<1, 11>> >>
           ELSE IF n = <<2>> THEN << >>
           ELSE IF n = <<1, 5>>
           THEN ids(Libraries[5].needs)
                    \o << <<1, 5, 1>>, <<1, 5, 2>>, <<1, 5, 3>> >>
           ELSE ids(Libraries[n[2]].needs)]

GraphFlat(S) ==
    [p \in {Libraries[k].RealPath : k \in S} |->
        <<1, Owner(S, CHOOSE k \in S : Libraries[k].RealPath = p)>>]

\* CollectorOptions: the preferred orders, and the options a run is given
PreferredOrders ==
    { << >>, <<PUsrLocal>>, <<POpt, PUsrLocal>>, <<PUsr, POpt>> }

CollectorOptions ==
    { [Folder |-> POut, PreferredOrder |-> o, Overwrite |-> w,
       ModifySpecialPaths |-> m, CollectFrameworks |-> m, Jobs |-> j] :
        o \in PreferredOrders, w \in BOOLEAN, m \in BOOLEAN,
        j \in 0..MaxJobs }

\* a file of the destination folder: a file left by an earlier run, a file
\* that cannot be examined, the copy of a library
OldFile == [kind |-> "old", src |-> NoPath]
NoAccess == [kind |-> "noaccess", src |-> NoPath]
Copy(src) == [kind |-> "copy", src |-> src]

\* the destination folder a run may find
Folders ==
    { Empty,
      [n \in {"z.dylib"} |-> OldFile],
      [n \in {"y.dylib", "Q"} |-> IF n = "Q" THEN NoAccess ELSE OldFile] }

\* os.Stat(filepath.Join(opts.Folder, name))
Stat(name) ==
    IF name \notin DOMAIN folder THEN "notexist"
    ELSE IF folder[name].kind = "noaccess" THEN "error"
    ELSE "exists"

RECURSIVE niceLoop(_, _, _, _, _, _)

\* the loop of getNiceness; i counts from 0 as in the code
niceLoop(i, nice1, nice2, ent1, ent2, order) ==
    IF i < Len(order) /\ (nice1 < 0 \/ nice2 < 0)
    THEN niceLoop(i + 1,
                  IF nice1 < 0 /\ HasPrefix(ent1, order[i + 1])
                  THEN i ELSE nice1,
                  IF nice2 < 0 /\ HasPrefix(ent2, order[i + 1])
                  THEN i ELSE nice2,
                  ent1, ent2, order)
    ELSE <<nice1, nice2>>

getNiceness(ent1, ent2, order) == niceLoop(0, 0 - 1, 0 - 1, ent1, ent2, order)

isFrameworkLib(file) == Ext(file) = ""

\* no top-level is ever found
getTopDepNone(dep) == Nil

\* getTopDep: the first top-level of the same Name and Info, or Nil
getTopDep(dep) ==
    LET m == {k \in 1..Len(deps) :
                /\ nodes[dep].Name = nodes[deps[k]].Name
                /\ nodes[dep].Info = nodes[deps[k]].Info}
    IN IF m = {} THEN Nil
       ELSE deps[CHOOSE k \in m : \A j \in m : k <= j]

\* any entry with a niceness replaces the holder
prefersAnyNice(n1, n2) == n2 >= 0

\* "if n2 >= 0 && (n1 < 0 || n2 < n1)"
prefers(n1, n2) == n2 >= 0 /\ (n1 < 0 \/ n2 < n1)

\* the destination is never looked at
destinationTakenNever(name) == FALSE

\* "if !opts.Overwrite": the destination exists or cannot be examined
destinationTaken(name) == ~copts.Overwrite /\ Stat(name) # "notexist"

\* the checks of the selection loop that skip an entry
skipped(dep) ==
    \/ destinationTaken(nodes[dep].Name)
    \/ nodes[dep].NotResolved
    \/ ~copts.ModifySpecialPaths /\ IsSpecialPath(nodes[dep].Path)
    \/ getTopDep(dep) # Nil
    \/ ~copts.CollectFrameworks /\ isFrameworkLib(nodes[dep].Name)

\* filepath.Rel(base, target) of two clean paths
Rel(base, target) ==
    IF (base # << >> /\ base[1] = "") # (target # << >> /\ target[1] = "")
    THEN [ok |-> FALSE, path |-> NoPath]
    ELSE LET n == Min(Len(base), Len(target))
             c == CHOOSE k \in 0..n :
                    /\ SubSeq(base, 1, k) = SubSeq(target, 1, k)
                    /\ \A j \in (k + 1)..n :
                          SubSeq(base, 1, j) # SubSeq(target, 1, j)
         IN [ok |-> TRUE,
             path |-> [j \in 1..(Len(base) - c) |-> ".."]
                         \o SubSeq(target, c + 1, Len(target))]

\* the files copyFile cannot read
Unreadable == { <<"", "home", "z.dylib">> }

\* copyFile(from, to) succeeds
copyFileOK(from) == from \notin Unreadable

\* the files install_name_tool rejects, and those whose load commands have
\* no room for a longer name
Rejected == { <<"", "usr", "local", "z.dylib">>, <<"", "app", "s.dylib">> }
NoRoom == { <<"", "opt", "y.dylib">>, PA }

\* exec.Command("install_name_tool", op, ...) on a file with the contents of
\* file returns no error
installNameToolOK(op, file) ==
    /\ file \notin Rejected
    /\ op = "change" => file \notin NoRoom

\* the edge is passed over only for a special path
skipsEdgeSpecialOnly(subDep) ==
    ~copts.ModifySpecialPaths /\ IsSpecialPath(nodes[subDep].Path)

\* the two tests that open the loops over the children, in collectorWorker
\* and in FixupToplevels: "subDep.NotResolved || (subDep.Pruned &&
\* !subDep.PrunedByFlatDeps)" and "!opts.ModifySpecialPaths &&
\* IsSpecialPath(subDep.Path)"
skipsEdge(subDep) ==
    \/ nodes[subDep].NotResolved
    \/ nodes[subDep].Pruned /\ ~nodes[subDep].PrunedByFlatDeps
    \/ ~copts.ModifySpecialPaths /\ IsSpecialPath(nodes[subDep].Path)

\* one iteration of the loop over *dep.Deps for the copy of dep:
\* the install_name_tool -change it runs and the errors it appends
rewriteSubDep(dep, subDep) ==
    LET destination == copts.Folder \o <<nodes[dep].Name>>
        none == [tool |-> {}, errs |-> << >>]
        top == getTopDep(subDep)
        rel == Rel(Dir(destination), nodes[top].Path)
        changeErrs == IF installNameToolOK("change", nodes[dep].RealPath)
                      THEN << >>
                      ELSE <<[what |-> "change", dep |-> dep]>>
    IN IF skipsEdge(subDep)
       THEN none
       ELSE IF top # Nil
       THEN [tool |-> {[op |-> "change", dest |-> nodes[dep].Name,
                        old |-> nodes[subDep].Path,
                        new |-> <<"@loader_path">> \o rel.path]},
             errs |-> (IF rel.ok THEN << >>
                       ELSE <<[what |-> "rel", dep |-> dep]>>)
                      \o changeErrs]
       ELSE IF ~copts.CollectFrameworks /\ isFrameworkLib(nodes[subDep].Name)
       THEN none
       ELSE [tool |-> {[op |-> "change", dest |-> nodes[dep].Name,
                        old |-> nodes[subDep].Path,
                        new |-> <<"@loader_path", nodes[subDep].Name>>]},
             errs |-> changeErrs]

RECURSIVE rewriteErrs(_, _, _)

\* the errors of the loop over *dep.Deps from its k-th iteration on
rewriteErrs(dep, subDeps, k) ==
    IF k > Len(subDeps) THEN << >>
    ELSE rewriteSubDep(dep, subDeps[k]).errs \o rewriteErrs(dep, subDeps, k + 1)

\* the references are rewritten though the identity could not be set
rewritesAlways(dep, idOK) ==
    UNION {rewriteSubDep(dep, Children(dep)[k]).tool :
             k \in 1..Len(Children(dep))}

\* the invocations of the loop over *dep.Deps, which runs in the else
\* branch of "if err != nil" after install_name_tool -id
rewrites(dep, idOK) ==
    IF idOK
    THEN UNION {rewriteSubDep(dep, Children(dep)[k]).tool :
                  k \in 1..Len(Children(dep))}
    ELSE {}

\* the body of the loop of collectorWorker for the job dep: the files of the
\* folder, the tool invocations and the worker's errList afterwards
processJob(dep, errList) ==
    LET copied == Put(folder, nodes[dep].Name, Copy(nodes[dep].RealPath))
        id == [op |-> "id", dest |-> nodes[dep].Name, old |-> NoPath,
               new |-> <<"@loader_path", nodes[dep].Name>>]
    IN IF ~copyFileOK(nodes[dep].RealPath)
       THEN [folder |-> folder, tool |-> tool,
             errList |-> Append(errList, [what |-> "copy", dep |-> dep])]
       ELSE IF ~installNameToolOK("id", nodes[dep].RealPath)
       THEN [folder |-> copied,
             tool |-> tool \cup {id} \cup rewrites(dep, FALSE),
             errList |-> Append(errList, [what |-> "id", dep |-> dep])]
       ELSE [folder |-> copied,
             tool |-> tool \cup {id} \cup rewrites(dep, TRUE),
             errList |-> errList \o rewriteErrs(dep, Children(dep), 1)]

\* CollectDeps is called with the graph DepsRead returned for the inputs
\* /app/a and given, a path of /app/w.dylib, whose current version is
\* current; unread tells whether ReadDylibs failed for /app/w.dylib, which
\* depsRead then marked NotResolved
CollectingTops(given, current, unreadSet, optionSet, folderSet) ==
    /\ \E S \in LibrarySets, unread \in unreadSet :
          /\ nodes = [GraphNodes(S) EXCEPT ![<<2>>].Path = given,
                                          ![<<2>>].Info = Info(65536, current),
                                          ![<<2>>].NotResolved = unread]
          /\ lists = GraphLists(S)
          /\ flat = GraphFlat(S)
    /\ files = <<PA, given>>
    /\ opts = Empty
    /\ mainpc = "returned"
    /\ fi = 3
    /\ seenFiles = {PA, given}
    /\ deps = << <<1>>, <<2>> >>
    /\ tasks = Empty
    /\ stack = << >>
    /\ ti = 1
    /\ limiter = 0
    /\ wg = 0
    /\ reads = Empty
    /\ descended = {}
    /\ result = "graph"
    /\ run = 1
    /\ prev = Empty
    /\ IdleMagic
    /\ IdleJSON
    /\ IdleFix
    /\ copts \in optionSet
    /\ folder \in folderSet
    /\ before = folder
    /\ cpc = "select"
    /\ unvisited = DOMAIN flat
    /\ visited = << >>
    /\ toCollect = Empty
    /\ toSend = {}
    /\ jobs = << >>
    /\ results = << >>
    /\ workers = Empty
    /\ got = 0
    /\ errors = << >>
    /\ tool = {}
    /\ cresult = "none"
    /\ handled = Empty

\* ReadDylibs read /app/w.dylib
CollectingGraph(given, current, optionSet, folderSet) ==
    CollectingTops(given, current, {FALSE}, optionSet, folderSet)

\* /app/w.dylib has the versions of /opt/w.dylib
Collecting(given, optionSet, folderSet) ==
    CollectingGraph(given, 65536, optionSet, folderSet)

InitCollect == Collecting(PW, CollectorOptions, Folders)

\* one iteration of "for _, dep := range graph.FlatDeps" (any order)
Select(p) ==
    /\ cpc = "select"
    /\ p \in unvisited
    /\ unvisited' = unvisited \ {p}
    /\ visited' = Append(visited, p)
    /\ LET dep == flat[p]
           name == nodes[dep].Name
       IN IF skipped(dep)
          THEN UNCHANGED toCollect
          ELSE IF name \in DOMAIN toCollect
          THEN LET n == getNiceness(nodes[toCollect[name]].Path,
                                    nodes[dep].Path, copts.PreferredOrder)
               IN IF prefers(n[1], n[2])
                  THEN toCollect' = Put(toCollect, name, dep)
                  ELSE UNCHANGED toCollect
          ELSE toCollect' = Put(toCollect, name, dep)
    /\ UNCHANGED <<copts, folder, before, cpc, toSend, jobs, results, workers,
                   got, errors, tool, cresult>>
    /\ UNCHANGED handled
    /\ UNCHANGED <<crawlVars, magicVars, jsonVars, fixVars>>

\* opts.Jobs is taken as it was given
jobsAsGiven(j) == j

\* "if opts.Jobs <= 0 { opts.Jobs = 1 }"
jobsOrOne(j) == IF j <= 0 THEN 1 ELSE j

\* "make(chan []string, len(toCollect))": the capacity of results
resultsCap == Cardinality(DOMAIN toCollect)

\* "if opts.Jobs <= 0", the two channels and the workers
StartWorkers ==
    /\ cpc = "select"
    /\ unvisited = {}
    /\ LET j == jobsOrOne(copts.Jobs)
       IN /\ copts' = [copts EXCEPT !.Jobs = j]
          /\ workers' = [w \in 1..j |-> [pc |-> "run", errList |-> << >>]]
    /\ toSend' = DOMAIN toCollect
    /\ visited' = << >>
    /\ cpc' = "enqueue"
    /\ UNCHANGED <<folder, before, unvisited, toCollect, jobs,
                   results, got, errors, tool, cresult>>
    /\ UNCHANGED handled
    /\ UNCHANGED <<crawlVars, magicVars, jsonVars, fixVars>>

\* "jobs <- dep" for one entry of toCollect (any order)
Enqueue(name) ==
    /\ cpc = "enqueue"
    /\ name \in toSend
    /\ Len(jobs) < copts.Jobs
    /\ jobs' = Append(jobs, toCollect[name])
    /\ toSend' = toSend \ {name}
    /\ UNCHANGED <<copts, folder, before, cpc, unvisited, visited, toCollect,
                   results, workers, got, errors, tool, cresult>>
    /\ UNCHANGED handled
    /\ UNCHANGED <<crawlVars, magicVars, jsonVars, fixVars>>

\* close(jobs)
CloseJobs ==
    /\ cpc = "enqueue"
    /\ toSend = {}
    /\ cpc' = "collect"
    /\ UNCHANGED <<copts, folder, before, unvisited, visited, toCollect,
                   toSend, jobs, results, workers, got, errors, tool, cresult>>
    /\ UNCHANGED handled
    /\ UNCHANGED <<crawlVars, magicVars, jsonVars, fixVars>>

\* the job stays in the channel
receivedKept(ch) == ch

\* "for dep := range jobs": the channel after a worker received from it
received(ch) == Tail(ch)

\* a worker receives a job, processes it and sends its errList, for which
\* results must have room
Work(w) ==
    /\ w \in DOMAIN workers
    /\ workers[w].pc = "run"
    /\ jobs # << >>
    /\ Len(results) < resultsCap
    /\ LET r == processJob(Head(jobs), workers[w].errList)
       IN /\ folder' = r.folder
          /\ tool' = r.tool
          /\ workers' = [workers EXCEPT ![w].errList = r.errList]
          /\ results' = Append(results, r.errList)
    /\ handled' = Put(handled, Head(jobs),
                      IF Head(jobs) \in DOMAIN handled
                      THEN handled[Head(jobs)] + 1 ELSE 1)
    /\ jobs' = received(jobs)
    /\ UNCHANGED <<copts, before, cpc, unvisited, visited, toCollect, toSend,
                   got, errors, cresult>>
    /\ UNCHANGED <<crawlVars, magicVars, jsonVars, fixVars>>

\* a worker finds jobs closed and empty
WorkerExit(w) ==
    /\ w \in DOMAIN workers
    /\ workers[w].pc = "run"
    /\ jobs = << >>
    /\ cpc \in {"collect", "done"}
    /\ workers' = [workers EXCEPT ![w].pc = "done"]
    /\ UNCHANGED <<copts, folder, before, cpc, unvisited, visited, toCollect,
                   toSend, jobs, results, got, errors, tool, cresult>>
    /\ UNCHANGED handled
    /\ UNCHANGED <<crawlVars, magicVars, jsonVars, fixVars>>

\* "errors = append(errors, <-results...)"
Receive ==
    /\ cpc = "collect"
    /\ got < Cardinality(DOMAIN toCollect)
    /\ results # << >>
    /\ errors' = errors \o Head(results)
    /\ results' = Tail(results)
    /\ got' = got + 1
    /\ UNCHANGED <<copts, folder, before, cpc, unvisited, visited, toCollect,
                   toSend, jobs, workers, tool, cresult>>
    /\ UNCHANGED handled
    /\ UNCHANGED <<crawlVars, magicVars, jsonVars, fixVars>>

\* no error is ever reported
failedNever(errs) == FALSE

\* "if errors != nil"
failed(errs) == errs # << >>

\* the return of CollectDeps
CollectReturn ==
    /\ cpc = "collect"
    /\ got = Cardinality(DOMAIN toCollect)
    /\ cpc' = "done"
    /\ cresult' = IF failed(errors) THEN "error" ELSE "ok"
    /\ UNCHANGED <<copts, folder, before, unvisited, visited, toCollect,
                   toSend, jobs, results, workers, got, errors, tool>>
    /\ UNCHANGED handled
    /\ UNCHANGED <<crawlVars, magicVars, jsonVars, fixVars>>

NextCollect ==
    \/ \E p \in DOMAIN flat : Select(p)
    \/ StartWorkers
    \/ \E name \in DOMAIN toCollect : Enqueue(name)
    \/ CloseJobs
    \/ \E w \in 1..MaxJobs : Work(w)
    \/ \E w \in 1..MaxJobs : WorkerExit(w)
    \/ Receive
    \/ CollectReturn

SpecCollect == InitCollect /\ [][NextCollect]_vars

\* the runs of every value of Jobs into an empty folder, with the
\* dispatcher and the workers scheduled: a step that can be taken is taken
\* in the end
ScheduledOptions ==
    { [Folder |-> POut, PreferredOrder |-> << >>, Overwrite |-> TRUE,
       ModifySpecialPaths |-> m, CollectFrameworks |-> m, Jobs |-> j] :
        m \in BOOLEAN, j \in 0..MaxJobs }

InitScheduled == Collecting(PW, ScheduledOptions, {Empty})

SpecCollectFair ==
    InitScheduled /\ [][NextCollect]_vars /\ WF_vars(NextCollect)

(***************************************************************************)
(* FixupToplevels (collector.go), called when CollectDeps returned no error *)
(*   fpc        position of FixupToplevels: "idle", "fix" (the loop over    *)
(*              TopDeps), "done"                                            *)
(*   fixed      what became of the top-levels visited so far, in order:     *)
(*              "unresolved", "lstat", "symlink", "stat", "chmod" for one   *)
(*              the loop passed over, "fixed" for one it rewrote            *)
(*   fixes      the invocations of install_name_tool on top-levels          *)
(*   fresult    what FixupToplevels returned: "none", "ok"                  *)
(*   crun       1 in the first run of the collector on the graph, 2 in the  *)
(*              second                                                      *)
(***************************************************************************)
PLnkW == <<"", "lnk", "w.dylib">>

\* the ways the input /app/w.dylib may be given: by its path, by a path
\* relative to the working directory /app, by the symbolic link /lnk/w.dylib
GivenPaths == { PW, <<"w.dylib">>, PLnkW }

\* the options and folders of the runs that are followed by FixupToplevels
FixOptions ==
    { [Folder |-> POut, PreferredOrder |-> << >>, Overwrite |-> w,
       ModifySpecialPaths |-> m, CollectFrameworks |-> m, Jobs |-> MaxJobs] :
        w \in BOOLEAN, m \in BOOLEAN }

FixFolders == { Empty, [n \in {"z.dylib"} |-> OldFile] }

InitFix ==
    \E given \in GivenPaths :
        CollectingTops(given, 65536, BOOLEAN, FixOptions, FixFolders)

\* os.Lstat(path) reports a symbolic link
IsSymlink(path) == path = PLnkW

\* the checks of lines 198-213 without the test for a symbolic link
OutcomesThroughSymlink(ent) ==
    IF nodes[ent].NotResolved THEN {"unresolved"}
    ELSE {"lstat", "stat", "chmod", "fixed"}

\* what the checks of lines 198-213 may make of the top-level ent: lstat,
\* stat and chmod fail when the file system denies them; "chmod" and
\* "fixed" are the outcomes in which os.Chmod was called
Outcomes(ent) ==
    IF nodes[ent].NotResolved THEN {"unresolved"}
    ELSE {"lstat"} \cup (IF IsSymlink(nodes[ent].Path) THEN {"symlink"}
                         ELSE {"stat", "chmod", "fixed"})

\* one iteration of the loop over *ent.Deps: the install_name_tool -change
\* it runs, none if it passes the edge over
fixSubDep(ent, subDep) ==
    LET top == getTopDep(subDep)
        depPath == IF top # Nil THEN nodes[top].RealPath
                   ELSE copts.Folder \o <<nodes[subDep].Name>>
        rel == Rel(Dir(nodes[ent].RealPath), depPath)
    IN IF skipsEdge(subDep)
       THEN {}
       ELSE IF /\ top = Nil
               /\ ~copts.CollectFrameworks
               /\ isFrameworkLib(nodes[subDep].Name)
       THEN {}
       ELSE IF ~rel.ok THEN {}
       ELSE {[op |-> "change", dest |-> nodes[ent].RealPath,
              old |-> nodes[subDep].Path,
              new |-> <<"@loader_path">> \o rel.path,
              ok |-> installNameToolOK("change", nodes[ent].RealPath)]}

\* the invocations of lines 215-241 for the top-level ent
fixToplevel(ent) ==
    {[op |-> "id", dest |-> nodes[ent].RealPath, old |-> NoPath,
      new |-> <<"@loader_path", nodes[ent].Name>>,
      ok |-> installNameToolOK("id", nodes[ent].RealPath)]}
        \cup UNION {fixSubDep(ent, Children(ent)[k]) :
                      k \in 1..Len(Children(ent))}

\* the loop ends at the first top-level it could not fix
toplevelsLeftUntilFailure(done) ==
    /\ Len(done) < Len(deps)
    /\ \A i \in 1..Len(done) : done[i] = "fixed"

\* "for _, ent := range graph.TopDeps": the loop has top-levels to visit
toplevelsLeft(done) == Len(done) < Len(deps)

\* FixupToplevels is called after CollectDeps returned nil
FixStart ==
    /\ cpc = "done"
    /\ cresult = "ok"
    /\ fpc = "idle"
    /\ fpc' = "fix"
    /\ UNCHANGED <<fixed, fixes, fresult, crun>>
    /\ UNCHANGED <<crawlVars, magicVars, collectVars, jsonVars>>

\* one iteration of the loop over graph.TopDeps
FixToplevel ==
    /\ fpc = "fix"
    /\ toplevelsLeft(fixed)
    /\ LET ent == deps[Len(fixed) + 1]
       IN \E outcome \in Outcomes(ent) :
             /\ fixed' = Append(fixed, outcome)
             /\ fixes' = IF outcome = "fixed"
                         THEN fixes \cup fixToplevel(ent)
                         ELSE fixes
    /\ UNCHANGED <<fpc, fresult, crun>>
    /\ UNCHANGED <<crawlVars, magicVars, collectVars, jsonVars>>

\* "return nil"
FixReturn ==
    /\ fpc = "fix"
    /\ ~toplevelsLeft(fixed)
    /\ fpc' = "done"
    /\ fresult' = "ok"
    /\ UNCHANGED <<fixed, fixes, crun>>
    /\ UNCHANGED <<crawlVars, magicVars, collectVars, jsonVars>>

\* CollectDeps is called a second time on the same graph and folder, with
\* Overwrite unset
Again ==
    /\ fpc = "done"
    /\ crun = 1
    /\ crun' = 2
    /\ copts' = [copts EXCEPT !.Overwrite = FALSE]
    /\ before' = folder
    /\ cpc' = "select"
    /\ unvisited' = DOMAIN flat
    /\ visited' = << >>
    /\ toCollect' = Empty
    /\ toSend' = {}
    /\ jobs' = << >>
    /\ results' = << >>
    /\ workers' = Empty
    /\ got' = 0
    /\ errors' = << >>
    /\ tool' = {}
    /\ cresult' = "none"
    /\ handled' = Empty
    /\ fpc' = "idle"
    /\ fixed' = << >>
    /\ fixes' = {}
    /\ fresult' = "none"
    /\ UNCHANGED folder
    /\ UNCHANGED <<crawlVars, magicVars, jsonVars>>

NextFix ==
    \/ NextCollect
    \/ FixStart
    \/ FixToplevel
    \/ FixReturn
    \/ Again

SpecFix == InitFix /\ [][NextFix]_vars

\* the runs in which the input /app/w.dylib is the build of /opt/w.dylib or
\* a later one
InitSame ==
    \E current \in {65536, 65792} :
        CollectingGraph(PW, current, FixOptions, {Empty})

SpecSame == InitSame /\ [][NextCollect]_vars

(***************************************************************************)
(* DepsGetJSONSerialisableVersion (dependencies.go)                         *)
(*   json       << >> before the call, <<graph>> after it: the graph it     *)
(*              returned, every Dependency written out with its children    *)
(***************************************************************************)
\* the Dependency the projection holds for node dep: the node itself or a
\* copy of it; nilDeps tells whether its Deps is nil
Projected(dep, flagged, nilDeps, subDeps) ==
    [Name |-> nodes[dep].Name, Path |-> nodes[dep].Path,
     RealPath |-> nodes[dep].RealPath, Pruned |-> nodes[dep].Pruned,
     PrunedByFlatDeps |-> flagged, NotResolved |-> nodes[dep].NotResolved,
     nilDeps |-> nilDeps, Deps |-> subDeps]

RECURSIVE chopDep(_, _)

RECURSIVE chopDeps(_, _, _)

\* chopDep with the map seenDeps it reads and writes: the Dependency it
\* returns and seenDeps afterwards
chopDep(dep, seenDeps) ==
    IF nodes[dep].Deps = Nil
    THEN [dep |-> Projected(dep, nodes[dep].PrunedByFlatDeps, TRUE, << >>),
          seen |-> seenDeps]
    ELSE LET r == chopDeps(Children(dep), 1, seenDeps)
         IN [dep |-> Projected(dep, nodes[dep].PrunedByFlatDeps, FALSE,
                               r.deps),
             seen |-> r.seen]

\* the loop "for _, subDep := range *dep.Deps" of chopDep from its k-th
\* iteration on
chopDeps(subDeps, k, seenDeps) ==
    IF k > Len(subDeps) THEN [deps |-> << >>, seen |-> seenDeps]
    ELSE LET subDep == subDeps[k]
         IN IF /\ ~nodes[subDep].Pruned
               /\ ~nodes[subDep].NotResolved
               /\ nodes[subDep].RealPath \in seenDeps
            THEN LET rest == chopDeps(subDeps, k + 1, seenDeps)
                 IN [deps |-> <<Projected(subDep, TRUE, TRUE, << >>)>>
                                \o rest.deps,
                     seen |-> rest.seen]
            ELSE LET r == chopDep(subDep,
                                  seenDeps \cup {nodes[subDep].RealPath})
                     rest == chopDeps(subDeps, k + 1, r.seen)
                 IN [deps |-> <<r.dep>> \o rest.deps, seen |-> rest.seen]

RECURSIVE chopAll(_, _, _)

\* chopDep applied to the nodes of the sequence ds from the k-th on
chopAll(ds, k, seenDeps) ==
    IF k > Len(ds) THEN [deps |-> << >>, seen |-> seenDeps]
    ELSE LET r == chopDep(ds[k], seenDeps)
             rest == chopAll(ds, k + 1, r.seen)
         IN [deps |-> <<r.dep>> \o rest.deps, seen |-> rest.seen]

\* the orders in which a range over a map with the keys S may visit them
Orders(S) ==
    {o \in [1..Cardinality(S) -> S] :
        \A i, j \in 1..Cardinality(S) : o[i] = o[j] => i = j}

\* the graph returned when the loop over graph.FlatDeps visits the keys in
\* the order given
JSONSerialisableVersion(order) ==
    LET top == chopAll(deps, 1, {})
        fl == chopAll([k \in 1..Len(order) |-> flat[order[k]]], 1, top.seen)
    IN [TopDeps |-> top.deps,
        FlatDeps |-> [p \in DOMAIN flat |->
                        fl.deps[CHOOSE k \in 1..Len(order) : order[k] = p]]]

\* DepsGetJSONSerialisableVersion is called on the graph DepsRead returned
Serialise ==
    /\ mainpc = "returned"
    /\ json = << >>
    /\ \E order \in Orders(DOMAIN flat) :
          json' = <<JSONSerialisableVersion(order)>>
    /\ UNCHANGED <<crawlVars, magicVars, collectVars, fixVars>>

NextJSON == Next \/ Serialise

SpecJSON == Init /\ [][NextJSON]_vars

TypeOK ==
    /\ mainpc \in {"idle", "norm", "seq", "wait", "returned", "error"}
    /\ result \in {"none", "graph", "error"}
    /\ limiter \in 0..MaxJobs
    /\ wg \in Nat

(***************************************************************************)
(* Properties of the crawl                                                  *)
(***************************************************************************)
Returned == mainpc = "returned"

Parsing == {t \in DOMAIN tasks : tasks[t].pc = "parsing"}

\* C1: in parallel mode DepsRead returns only after every crawl task has
\* completed, the tasks started by other crawl tasks included: at the return
\* no depsRead is pending or running.
C1_AllTasksDoneAtReturn ==
    (~Sequential /\ Returned) =>
        \A t \in DOMAIN tasks : tasks[t].pc = "done"

\* a parallel crawl returned after tasks started by tasks started by tasks
C1_Witness ==
    /\ ~Sequential
    /\ Returned
    /\ \E t \in DOMAIN tasks : Len(t) >= 3 /\ tasks[t].pc = "done"

\* C2: at every moment at most Jobs parses are in progress, and at most one
\* when Jobs <= 1 (sequential crawl).
C2_AtMostJobsParses ==
    /\ Cardinality(Parsing) <= (IF opts.Jobs <= 1 THEN 1 ELSE opts.Jobs)
    /\ Sequential => Cardinality(Parsing) <= 1

\* Jobs parses are in progress while another task waits for the limiter
C2_Witness ==
    /\ ~Sequential
    /\ Cardinality(Parsing) = opts.Jobs
    /\ \E t \in DOMAIN tasks : tasks[t].pc = "pending"

\* C3: ReadDylibs is invoked at most once for any real path, counted over
\* the top-level and the discovered nodes.
C3_ReadOncePerRealPath ==
    \A p \in DOMAIN reads : reads[p] <= 1


\* the real paths of the top-level nodes
TopRealPaths == {nodes[deps[k]].RealPath : k \in 1..Len(deps)}

\* the record lib of the file at real path x is resolved and kept by the
\* pruning decision (not weak-skipped, not an ignored file, not a top-level,
\* resolvable, not under an ignored prefix)
Kept(lib, x) ==
    LET r == resolvePath(lib.Path, [RealPath |-> x])
    IN /\ ~(lib.Weak /\ opts.SkipWeakLibs)
       /\ Base(lib.Path) \notin Range(opts.IgnoredFiles)
       /\ \A k \in 1..Len(deps) :
             /\ nodes[deps[k]].Path # lib.Path
             /\ nodes[deps[k]].RealPath # lib.Path
       /\ r.ok
       /\ ~matchesIgnoredPrefixes(lib.Path)
       /\ ~matchesIgnoredPrefixes(r.path)

\* the real paths the kept records of the file at x resolve to
Targets(x) ==
    IF ~ReadDylibsOK(x) THEN {}
    ELSE {resolvePath(l.Path, [RealPath |-> x]).path :
            l \in {m \in Range(ReadDylibsLibs(x)) : Kept(m, x)}}

RECURSIVE ClosureFrom(_)
ClosureFrom(S) ==
    LET T == S \cup UNION {Targets(x) : x \in TopRealPaths \cup S}
    IN IF T = S THEN S ELSE ClosureFrom(T)

\* the least set closed under the kept dependencies of the inputs
Closure == ClosureFrom({})

DeclaredPaths(x) == {l.Path : l \in Range(ReadDylibsLibs(x))}

\* the nodes whose file was parsed: top-levels and FlatDeps entries
CrawledNodes == Range(deps) \cup Range(flat)

\* C4: with Recursive set, at the return the keys of FlatDeps are the
\* transitive closure of the inputs under the kept dependencies, and every
\* parsed node has exactly one child per distinct declared path.
C4_FlatDepsIsClosure ==
    (Returned /\ opts.Recursive) =>
        /\ DOMAIN flat = Closure
        /\ \A n \in CrawledNodes :
              ReadDylibsOK(nodes[n].RealPath) =>
                 /\ Len(Children(n)) =
                       Cardinality(DeclaredPaths(nodes[n].RealPath))
                 /\ {nodes[c].Path : c \in Range(Children(n))} =
                       DeclaredPaths(nodes[n].RealPath)

\* a recursive crawl returned a closure with an entry two levels below the
\* inputs and a file that repeats a declared path
C4_Witness ==
    /\ Returned
    /\ opts.Recursive
    /\ \E p \in DOMAIN flat : Len(flat[p]) >= 3
    /\ \E n \in CrawledNodes :
          /\ ReadDylibsOK(nodes[n].RealPath)
          /\ Len(ReadDylibsLibs(nodes[n].RealPath)) > Len(Children(n))

\* the edges real path -> real path of the graph; a pruned child is a
\* pruned edge and not part of it
RealEdges ==
    UNION {{<<nodes[n].RealPath, nodes[c].RealPath>> :
               c \in {d \in Range(Children(n)) : ~nodes[d].Pruned}} :
           n \in DOMAIN nodes}

RECURSIVE ReachFrom(_, _)
\* the elements reachable from the set S by one or more edges of E
ReachFrom(S, E) ==
    LET T == S \cup {e[2] : e \in {d \in E : d[1] \in S}}
    IN IF T = S THEN S ELSE ReachFrom(T, E)

Successors(x, E) == {e[2] : e \in {d \in E : d[1] = x}}

Cyclic(E) == \E e \in E : e[1] \in ReachFrom(Successors(e[1], E), E)

\* C5 (as stated): in the returned graph the edges from a node's real path
\* to the real paths of its children form an acyclic graph.
C5_RealPathGraphAcyclic ==
    Returned => ~Cyclic(RealEdges)

\* C5 (amended): a dependency already known is never descended again: every
\* node depsRead was started for from a parent is a FlatDeps entry with one
\* parent only, and the descended edges between nodes are acyclic.
C5_DescendedEdgesAcyclic ==
    /\ \A e \in descended :
          /\ nodes[e[2]].RealPath \in DOMAIN flat
          /\ flat[nodes[e[2]].RealPath] = e[2]
          /\ \A d \in descended : d[2] = e[2] => d[1] = e[1]
    /\ ~Cyclic(descended)

\* a returned graph whose real-path edges have a cycle
C5_Witness ==
    /\ Returned
    /\ descended # {}
    /\ Cyclic(RealEdges)


\* the children of a node as a caller compares them
ChildPaths(tree) == [j \in DOMAIN tree.children |-> tree.children[j].Path]

ChildEdgesOf(tree) ==
    [j \in DOMAIN tree.children |->
        <<tree.children[j].Path, tree.children[j].RealPath,
          tree.children[j].Pruned>>]

SecondReturn == run = 2 /\ Returned

\* C6 (as stated): the returned graph is the same for every interleaving of
\* the crawl tasks: same FlatDeps entries (key, declared path, name, weak
\* flag and flags of the canonical node) and same children of every node.
C6_SameGraphEveryInterleaving ==
    SecondReturn => GraphView = prev

\* C6 (amended): for every interleaving the graph has the same top-level
\* nodes, the same FlatDeps keys and, for every top-level and every FlatDeps
\* entry, the same children compared by declared path, real path and pruned
\* flag; the declared path, name and weak flag of the canonical node of a
\* key are those of whichever referrer was inserted first.
C6_SameShapeEveryInterleaving ==
    SecondReturn =>
        /\ DOMAIN GraphView.flat = DOMAIN prev.flat
        /\ DOMAIN GraphView.top = DOMAIN prev.top
        /\ \A k \in DOMAIN prev.top :
              /\ GraphView.top[k].node = prev.top[k].node
              /\ ChildEdgesOf(GraphView.top[k]) = ChildEdgesOf(prev.top[k])
        /\ \A p \in DOMAIN prev.flat :
              /\ GraphView.flat[p].node.RealPath = p
              /\ GraphView.flat[p].node.NotResolved =
                    prev.flat[p].node.NotResolved
              /\ ChildEdgesOf(GraphView.flat[p]) = ChildEdgesOf(prev.flat[p])

\* two parallel crawls of the same inputs whose canonical node of some key
\* differs
C6_Witness ==
    /\ SecondReturn
    /\ ~Sequential
    /\ \E p \in DOMAIN prev.flat :
          GraphView.flat[p].node.Path # prev.flat[p].node.Path

\* C7: two runs of DepsRead on the same inputs give the same FlatDeps keys
\* and, for every node, the same children compared by declared path.
C7_CrawlIdempotent ==
    SecondReturn =>
        /\ DOMAIN flat = DOMAIN prev.flat
        /\ Len(deps) = Len(prev.top)
        /\ \A k \in 1..Len(deps) :
              ChildPaths(TreeView(deps[k])) = ChildPaths(prev.top[k])
        /\ \A p \in DOMAIN flat :
              ChildPaths(TreeView(flat[p])) = ChildPaths(prev.flat[p])

\* a second run returned a non-empty closure, scheduled differently from
\* the first
C7_Witness ==
    /\ SecondReturn
    /\ DOMAIN flat # {}
    /\ GraphView # prev


RECURSIVE FirstOccurrences(_)
\* a sequence without the repetitions of its elements
FirstOccurrences(q) ==
    IF q = << >> THEN << >>
    ELSE LET r == FirstOccurrences(SubSeq(q, 1, Len(q) - 1))
             x == q[Len(q)]
         IN IF x \in Range(r) THEN r ELSE Append(r, x)

\* the crawl has started or DepsRead has returned the graph
Seeded == mainpc \in {"seq", "wait", "returned"}

\* C8: TopDeps has exactly one node per distinct input, inputs identified by
\* their absolute symlink-expanded path, in the order of first occurrence.
C8_OneTopPerAbsolutePath ==
    Seeded =>
        [k \in 1..Len(deps) |-> nodes[deps[k]].RealPath] =
            FirstOccurrences([i \in 1..Len(files) |->
                                 ResolveAbsPath(files[i]).path])

InputsBad == files = << >> \/ \E i \in 1..Len(files) : ~InputOK(files[i])

NothingCrawled ==
    /\ tasks = Empty
    /\ reads = Empty
    /\ flat = Empty

\* C9: with an empty input list or an input that fails a check, DepsRead
\* returns an error and no graph, and no depsRead is started for any input.
C9_BadInputStartsNoCrawl ==
    /\ InputsBad => (~Seeded /\ result # "graph" /\ NothingCrawled)
    /\ mainpc = "error" => (InputsBad /\ result = "error" /\ NothingCrawled)
    /\ (InputsBad /\ mainpc = "norm" /\ fi > Len(files)) => files = << >>

\* DepsRead failed on an input that follows a good one
C9_Witness ==
    /\ mainpc = "error"
    /\ result = "error"
    /\ Len(files) >= 2
    /\ InputOK(files[1])
    /\ deps # << >>

\* C10: a parse failure of one node is not fatal: the node is marked
\* NotResolved and has no children, all other tasks run to completion, and
\* DepsRead returns the graph.
C10_ParseFailureNotFatal ==
    /\ Seeded => result # "error"
    /\ Returned =>
          /\ result = "graph"
          /\ \A t \in DOMAIN tasks :
                /\ tasks[t].pc = "done"
                /\ ~ReadDylibsOK(nodes[t].RealPath) =>
                      (nodes[t].NotResolved /\ Children(t) = << >>)

\* the graph was returned after one node failed to parse and a node that was
\* started later was crawled
C10_Witness ==
    /\ Returned
    /\ \E t \in DOMAIN tasks :
          /\ ~ReadDylibsOK(nodes[t].RealPath)
          /\ nodes[t].NotResolved
          /\ \E u \in DOMAIN tasks :
                /\ u # t
                /\ Len(u) >= Len(t)
                /\ ReadDylibsOK(nodes[u].RealPath)
                /\ Children(u) # << >>

\* a path that is absolute and that ResolveAbsPath leaves as it is
Canonical(p) ==
    /\ p # << >>
    /\ p[1] = ""
    /\ p \notin DOMAIN Symlinks
    /\ ResolveAbsPath(p) = [ok |-> TRUE, path |-> p]

\* C11: every key of FlatDeps is an absolute, symlink-expanded path and is
\* the RealPath of the node stored under it; once a key is inserted, the key,
\* the node stored under it and that node's RealPath never change.
C11_FlatKeysCanonical ==
    /\ [](\A p \in DOMAIN flat :
            Canonical(p) /\ nodes[flat[p]].RealPath = p)
    /\ [][\A p \in DOMAIN flat :
            /\ p \in DOMAIN flat'
            /\ flat'[p] = flat[p]
            /\ nodes'[flat[p]].RealPath = p]_vars

\* a key inserted through a symlink or a special path: the declared path of
\* the stored node is not the key
C11_Witness ==
    /\ Returned
    /\ \E p \in DOMAIN flat : nodes[flat[p]].Path # p

\* C12: in the returned graph no key of FlatDeps is the Path or the RealPath
\* of a top-level node.
C12_NoTopLevelInFlatDeps ==
    Returned =>
        \A k \in 1..Len(deps) :
            /\ nodes[deps[k]].Path \notin DOMAIN flat
            /\ nodes[deps[k]].RealPath \notin DOMAIN flat

TopPaths == {nodes[deps[k]].Path : k \in 1..Len(deps)}

\* the (parent, child) pairs of the graph
ChildPairs ==
    {pc \in (DOMAIN nodes) \X (DOMAIN nodes) :
        \E j \in 1..Len(Children(pc[1])) : Children(pc[1])[j] = pc[2]}

\* C13 as stated: every child is not resolved, or its RealPath is a key of
\* FlatDeps, or its RealPath is the Path of a top-level node.
C13_ChildResolvedOrKnown ==
    Returned =>
        \A pc \in ChildPairs :
            \/ nodes[pc[2]].NotResolved
            \/ nodes[pc[2]].RealPath \in DOMAIN flat
            \/ nodes[pc[2]].RealPath \in TopPaths

\* C13: every child is not resolved, or pruned, or its RealPath is a key of
\* FlatDeps, or its RealPath is the Path of a top-level node.
C13_ChildResolvedPrunedOrKnown ==
    Returned =>
        \A pc \in ChildPairs :
            \/ nodes[pc[2]].NotResolved
            \/ nodes[pc[2]].Pruned
            \/ nodes[pc[2]].RealPath \in DOMAIN flat
            \/ nodes[pc[2]].RealPath \in TopPaths

\* a child pruned by the ignore policy: resolved, yet neither in FlatDeps nor
\* a top-level
C13_Witness ==
    /\ Returned
    /\ \E pc \in ChildPairs :
        /\ nodes[pc[2]].Pruned
        /\ ~nodes[pc[2]].NotResolved
        /\ nodes[pc[2]].RealPath \notin DOMAIN flat
        /\ nodes[pc[2]].RealPath \notin TopPaths
        /\ nodes[pc[2]].RealPath \notin TopRealPaths

\* C14: at the return the children of every node are in strictly ascending
\* order of declared path (so no declared path occurs twice), and a parsed
\* node has exactly the declared paths of its records as children, however
\* often a record repeats.
C14_ChildrenSortedNoDuplicates ==
    Returned =>
        /\ \A n \in DOMAIN nodes :
              \A i, j \in 1..Len(Children(n)) :
                  i < j => PathLess(nodes[Children(n)[i]].Path,
                                    nodes[Children(n)[j]].Path)
        /\ \A t \in DOMAIN tasks :
              ReadDylibsOK(nodes[t].RealPath) =>
                  {nodes[c].Path : c \in Range(Children(t))} =
                      {lib.Path : lib \in Range(ReadDylibsLibs(nodes[t].RealPath))}

\* a parsed node whose records repeat a path and are not in sorted order
C14_Witness ==
    /\ Returned
    /\ \E t \in DOMAIN tasks :
          LET libs == ReadDylibsLibs(nodes[t].RealPath)
          IN /\ ReadDylibsOK(nodes[t].RealPath)
             /\ Len(Children(t)) >= 2
             /\ Len(Children(t)) < Len(libs)
             /\ \E i, j \in 1..Len(libs) :
                   i < j /\ PathLess(libs[j].Path, libs[i].Path)

\* a node that stands for a resolved file that was not pruned
Live(n) == ~nodes[n].Pruned /\ ~nodes[n].NotResolved

\* C15: in the returned graph two nodes that stand for the same real path
\* have the same children list (the same instance), and a child whose
\* declared path is that of the FlatDeps entry of its real path is that
\* entry's node itself.
C15_SameRealPathSharesChildren ==
    Returned =>
        /\ \A m, n \in DOMAIN nodes :
              (Live(m) /\ Live(n) /\ nodes[m].RealPath = nodes[n].RealPath)
                  => nodes[m].Deps = nodes[n].Deps
        /\ \A pc \in ChildPairs :
              (/\ Live(pc[2])
               /\ nodes[pc[2]].RealPath \in DOMAIN flat
               /\ nodes[flat[nodes[pc[2]].RealPath]].Path = nodes[pc[2]].Path)
                  => pc[2] = flat[nodes[pc[2]].RealPath]

\* the nodes pruneDep created (every node but the top-levels)
Discovered == {n \in DOMAIN nodes : Len(n) > 1}

\* the node that referred to a discovered node when it was created
Referrer(n) == SubSeq(n, 1, Len(n) - 1)

\* the ignore policy applies to the candidate node n
Ignorable(n) ==
    LET r == resolvePath(nodes[n].Path, nodes[Referrer(n)])
    IN \/ nodes[n].IsWeakDep /\ opts.SkipWeakLibs
       \/ \E k \in 1..Len(opts.IgnoredFiles) :
             nodes[n].Name = opts.IgnoredFiles[k]
       \/ r.ok /\ (matchesIgnoredPrefixes(r.path)
                     \/ matchesIgnoredPrefixes(nodes[n].Path))

\* C16: a candidate that is weak while SkipWeakLibs is set, whose name is in
\* IgnoredFiles, or whose resolved path begins with an ignored prefix is
\* marked pruned, is not in FlatDeps and is never crawled; no FlatDeps entry
\* has a name in IgnoredFiles or a RealPath under an ignored prefix.
C16_IgnorePolicyNeverBypassed ==
    /\ \A n \in Discovered :
          Ignorable(n) =>
              /\ nodes[n].Pruned
              /\ nodes[n].Deps = Nil
              /\ n \notin Range(flat)
              /\ n \notin DOMAIN tasks
    /\ \A p \in DOMAIN flat :
          /\ ~matchesIgnoredPrefixes(p)
          /\ ~matchesIgnoredPrefixes(nodes[flat[p]].RealPath)
          /\ \A k \in 1..Len(opts.IgnoredFiles) :
                nodes[flat[p]].Name # opts.IgnoredFiles[k]

\* a returned graph with a FlatDeps entry, a weak candidate skipped and a
\* candidate pruned for its prefix
C16_Witness ==
    /\ Returned
    /\ flat # Empty
    /\ \E n \in Discovered :
          nodes[n].IsWeakDep /\ opts.SkipWeakLibs /\ nodes[n].Pruned
    /\ \E n \in Discovered :
          matchesIgnoredPrefixes(nodes[n].RealPath) /\ nodes[n].Pruned

\* C17: without Recursive, ReadDylibs is called once for every top-level
\* node and for no other node, and every other node has no children.
C17_NonRecursiveReadsTopLevelsOnly ==
    (Returned /\ ~opts.Recursive) =>
        /\ DOMAIN tasks = Range(deps)
        /\ \A p \in DOMAIN reads \cup TopRealPaths :
              Count(reads, p) =
                  Cardinality({k \in 1..Len(deps) : nodes[deps[k]].RealPath = p})
        /\ \A n \in Discovered : Children(n) = << >>

\* a non-recursive run that discovered a library it did not crawl
C17_Witness ==
    /\ Returned
    /\ ~opts.Recursive
    /\ flat # Empty
    /\ \E p \in DOMAIN flat : ReadDylibsLibs(p) # << >>

(***************************************************************************)
(* Properties of the magic check                                            *)
(***************************************************************************)
\* the first four bytes of the files that begin with one of the six magics
MagicHeaders ==
    { <<206, 250, 237, 254>>,    \* ce fa ed fe: 0xfeedface
      <<254, 237, 250, 206>>,    \* fe ed fa ce: 0xcefaedfe
      <<207, 250, 237, 254>>,    \* cf fa ed fe: 0xfeedfacf
      <<254, 237, 250, 207>>,    \* fe ed fa cf: 0xcffaedfe
      <<190, 186, 254, 202>>,    \* be ba fe ca: 0xcafebabe
      <<202, 254, 186, 190>> }   \* ca fe ba be: 0xbebafeca

BeginsWithMagic(f) ==
    Len(f.bytes) >= 4 /\ SubSeq(f.bytes, 1, 4) \in MagicHeaders

Nice(path) ==
    LET m == {i \in 1..Len(copts.PreferredOrder) :
                HasPrefix(path, copts.PreferredOrder[i])}
    IN IF m = {} THEN 0 - 1
       ELSE (CHOOSE i \in m : \A j \in m : i <= j) - 1

\* the entry of FlatDeps under key p can be selected: its destination is
\* free (or Overwrite is set), it is resolved, not a special path unless
\* ModifySpecialPaths, no top-level, no framework unless CollectFrameworks
Selectable(p) ==
    LET d == nodes[flat[p]]
    IN /\ copts.Overwrite \/ d.Name \notin DOMAIN before
       /\ ~d.NotResolved
       /\ copts.ModifySpecialPaths \/ ~IsSpecialPath(d.Path)
       /\ \A k \in 1..Len(deps) :
             d.Name # nodes[deps[k]].Name \/ d.Info # nodes[deps[k]].Info
       /\ copts.CollectFrameworks \/ Ext(d.Name) # ""

\* the selectable entries of the name n that the selection loop has visited
Group(n) ==
    {p \in Range(visited) : Selectable(p) /\ nodes[flat[p]].Name = n}

\* the member of G visited first
FirstSeen(G) ==
    visited[CHOOSE i \in 1..Len(visited) :
                /\ visited[i] \in G
                /\ \A j \in 1..Len(visited) : visited[j] \in G => i <= j]

\* C19: throughout the selection loop and at its end, toCollect holds one
\* entry for every name with a selectable entry visited so far, taken from
\* the entries of that name; if any of them has a niceness >= 0 the entry
\* held has the lowest such niceness, otherwise it is the entry seen first.
C19_PreferredRepresentativePerName ==
    cpc = "select" =>
    \A n \in {nodes[flat[p]].Name : p \in Range(visited)}
                \cup DOMAIN toCollect :
        /\ n \in DOMAIN toCollect <=> Group(n) # {}
        /\ Group(n) # {} =>
              LET sel == nodes[toCollect[n]]
                  nice == {Nice(nodes[flat[q]].Path) : q \in Group(n)}
                              \ {0 - 1}
              IN /\ sel.RealPath \in Group(n)
                 /\ sel.Name = n
                 /\ IF nice # {}
                    THEN /\ Nice(sel.Path) \in nice
                         /\ \A k \in nice : Nice(sel.Path) <= k
                    ELSE sel.RealPath = FirstSeen(Group(n))

\* a conflict among three entries was resolved against the entry seen first,
\* and another against an entry preferred less
C19_Witness ==
    /\ cpc = "select"
    /\ unvisited = {}
    /\ \E n \in DOMAIN toCollect :
          /\ Cardinality(Group(n)) = 3
          /\ nodes[toCollect[n]].RealPath # FirstSeen(Group(n))
          /\ \E q \in Group(n) :
                /\ Nice(nodes[flat[q]].Path) >= 0
                /\ Nice(nodes[flat[q]].Path) > Nice(nodes[toCollect[n]].Path)

\* C20: without Overwrite, a file that was in the destination folder when
\* CollectDeps was called is left as it was: no entry of its name is
\* selected or sent to a worker, no worker copies over it, and
\* install_name_tool is not run on it.
C20_ExistingDestinationUntouched ==
    ~copts.Overwrite =>
        \A n \in DOMAIN before :
            /\ n \in DOMAIN folder
            /\ folder[n] = before[n]
            /\ n \notin DOMAIN toCollect
            /\ \A k \in 1..Len(jobs) : nodes[jobs[k]].Name # n
            /\ \A r \in tool : r.dest # n

\* a run without Overwrite that collected a library and passed over another
\* whose destination was there
C20_Witness ==
    /\ cpc = "done"
    /\ ~copts.Overwrite
    /\ \E n \in DOMAIN folder : folder[n].kind = "copy"
    /\ \E p \in DOMAIN flat :
          /\ nodes[flat[p]].Name \in DOMAIN before
          /\ before[nodes[flat[p]].Name] = OldFile
          /\ Ext(nodes[flat[p]].Name) # ""
          /\ ~IsSpecialPath(nodes[flat[p]].Path)

(***************************************************************************)
(* Properties of the pruning decision                                       *)
(***************************************************************************)
\* the nodes pruneDep returned with its second result false: those waiting
\* in a toProcess list and those depsRead was started for
ToDescend ==
    UNION {Range(tasks[t].todo) : t \in DOMAIN tasks}
        \cup (DOMAIN tasks \cap Discovered)

\* C27: for every real path one candidate is inserted into FlatDeps and is
\* the only one to be descended; every other resolved candidate of that real
\* path found the entry: it has the entry's children list and is not
\* descended.
C27_FlatDepsInsertAtomic ==
    /\ \A d \in ToDescend :
          /\ nodes[d].RealPath \in DOMAIN flat
          /\ flat[nodes[d].RealPath] = d
    /\ \A n \in Discovered :
          Live(n) =>
              /\ nodes[n].RealPath \in DOMAIN flat
              /\ nodes[n].Deps = nodes[flat[nodes[n].RealPath]].Deps
    /\ \A p \in DOMAIN flat :
          /\ nodes[flat[p]].Deps = flat[p]
          /\ \A q \in DOMAIN flat : flat[p] = flat[q] => p = q

\* two crawl tasks are in their loops at the same time, one has inserted a
\* real path and will descend, the other has met the same real path since
C27_Witness ==
    /\ ~Sequential
    /\ \E t1, t2 \in DOMAIN tasks :
          /\ t1 # t2
          /\ tasks[t1].pc = "loop"
          /\ tasks[t2].pc = "loop"
          /\ \E c1 \in Range(tasks[t1].todo), c2 \in Range(Children(t2)) :
                /\ c1 # c2
                /\ Live(c2)
                /\ nodes[c2].RealPath = nodes[c1].RealPath
                /\ c2 \notin Range(tasks[t2].todo)

\* the declared path of the discovered node n begins with an ignored prefix
UnderIgnoredPrefix(n) == matchesIgnoredPrefixes(nodes[n].Path)

\* C28 as stated: a child whose declared path begins with an ignored prefix
\* has the basename of the declared path as its name, is pruned and is not
\* in FlatDeps.
C28_IgnoredPrefixChildPruned ==
    \A n \in Discovered :
        UnderIgnoredPrefix(n) =>
            /\ nodes[n].Name = Base(nodes[n].Path)
            /\ nodes[n].Pruned
            /\ n \notin Range(flat)
            /\ nodes[n].RealPath \notin DOMAIN flat

\* C28: a child whose declared path begins with an ignored prefix and can be
\* resolved has the basename of the declared path as its name, is pruned and
\* is not in FlatDeps; one that cannot be resolved is marked not resolved
\* instead, unless it is weak-skipped or an ignored file, and is not in
\* FlatDeps either.
C28_ResolvedIgnoredPrefixChildPruned ==
    \A n \in Discovered :
        UnderIgnoredPrefix(n) =>
            /\ nodes[n].Name = Base(nodes[n].Path)
            /\ n \notin Range(flat)
            /\ nodes[n].RealPath \notin DOMAIN flat
            /\ resolvePath(nodes[n].Path, nodes[Referrer(n)]).ok
                  => nodes[n].Pruned
            /\ ~resolvePath(nodes[n].Path, nodes[Referrer(n)]).ok
                  => (nodes[n].Pruned # nodes[n].NotResolved)

\* a returned graph with a pruned child under /usr/lib and an unresolved one
C28_Witness ==
    /\ Returned
    /\ \E n \in Discovered :
          UnderIgnoredPrefix(n) /\ nodes[n].Pruned /\ ~nodes[n].NotResolved
    /\ \E n \in Discovered :
          UnderIgnoredPrefix(n) /\ ~nodes[n].Pruned /\ nodes[n].NotResolved

\* the discovered node n refers to a top-level input: its declared path is
\* the path of a top-level or resolves to the real path of one
RefersToTopLevel(n) ==
    LET r == resolvePath(nodes[n].Path, nodes[Referrer(n)])
    IN \/ nodes[n].Path \in TopPaths
       \/ r.ok /\ r.path \in TopRealPaths

\* C29: a discovered dependency that refers to a top-level input is marked
\* pruned, is not in FlatDeps and is not descended, unless the ignore policy
\* applies to it.
C29_CyclesThroughRootsBroken ==
    \A n \in Discovered :
        (RefersToTopLevel(n) /\ ~Ignorable(n)) =>
            /\ nodes[n].Pruned
            /\ nodes[n].Deps = Nil
            /\ n \notin Range(flat)
            /\ n \notin ToDescend

\* the discovered node n is an alias: it was given the children list of the
\* node FlatDeps holds for its real path
Alias(n) ==
    /\ nodes[n].Deps # Nil
    /\ nodes[n].RealPath \in DOMAIN flat
    /\ flat[nodes[n].RealPath] # n

\* C30 as stated: a node returned for a real path already in FlatDeps under
\* another declared path shares the children list of the entry, is flagged
\* PrunedByFlatDeps and is not descended.
C30_AliasFlagged ==
    \A n \in Discovered :
        Alias(n) =>
            /\ nodes[n].Path # nodes[flat[nodes[n].RealPath]].Path
            /\ nodes[n].Deps = nodes[flat[nodes[n].RealPath]].Deps
            /\ nodes[n].PrunedByFlatDeps
            /\ n \notin ToDescend

\* C30: a node returned for a real path already in FlatDeps under another
\* declared path carries its own declared path, shares the children list of
\* the entry, is not descended, and has neither Pruned nor PrunedByFlatDeps
\* set; a candidate with the declared path of the entry adds no node: the
\* parent's child is the entry itself, whose flags stay unset.
C30_AliasSharesUnflagged ==
    /\ \A n \in Discovered :
          Alias(n) =>
              /\ nodes[n].Path # nodes[flat[nodes[n].RealPath]].Path
              /\ nodes[n].Deps = nodes[flat[nodes[n].RealPath]].Deps
              /\ ~nodes[n].PrunedByFlatDeps
              /\ ~nodes[n].Pruned
              /\ n \notin ToDescend
    /\ \A p \in DOMAIN flat :
          ~nodes[flat[p]].PrunedByFlatDeps /\ ~nodes[flat[p]].Pruned

\* a returned graph with an alias and with an entry that is the child of two
\* parents
C30_Witness ==
    /\ Returned
    /\ \E n \in Discovered : Alias(n)
    /\ \E pc \in ChildPairs, qc \in ChildPairs :
          /\ pc[2] = qc[2]
          /\ pc[1] # qc[1]
          /\ pc[2] \in Range(flat)

(***************************************************************************)
(* Properties of the JSON projection                                        *)
(***************************************************************************)
RECURSIVE PreOrder(_)

\* the Dependencies of the sequence ds and those below them, in the order a
\* depth-first traversal meets them
PreOrder(ds) ==
    IF ds = << >> THEN << >>
    ELSE <<Head(ds)>> \o PreOrder(Head(ds).Deps) \o PreOrder(Tail(ds))

RECURSIVE BelowTops(_)

\* the Dependencies below the top-levels of the projection from the k-th on
BelowTops(k) ==
    IF k > Len(json[1].TopDeps) THEN << >>
    ELSE PreOrder(json[1].TopDeps[k].Deps) \o BelowTops(k + 1)

\* the Dependencies of the projection reached from TopDeps, the top-levels
\* left out
Occurrences == BelowTops(1)

\* C26: in the projection reached from TopDeps, of the resolved, non-pruned
\* nodes of one real path the first the traversal meets keeps its children
\* and is not flagged, and every later one is a leaf copy: Deps nil and
\* PrunedByFlatDeps set.
C26_FirstOccurrenceKeepsChildren ==
    json # << >> =>
        \A i \in 1..Len(Occurrences) :
            LET d == Occurrences[i]
                later == \E j \in 1..(i - 1) :
                            /\ ~Occurrences[j].Pruned
                            /\ ~Occurrences[j].NotResolved
                            /\ Occurrences[j].RealPath = d.RealPath
            IN (~d.Pruned /\ ~d.NotResolved) =>
                  IF later
                  THEN d.PrunedByFlatDeps /\ d.nilDeps /\ d.Deps = << >>
                  ELSE ~d.PrunedByFlatDeps /\ ~d.nilDeps

(***************************************************************************)
(* Properties of the workers and of FixupToplevels                          *)
(***************************************************************************)
\* the loops over the children of a node rewrite the edge to subDep: it is
\* resolved, not pruned by the crawl, no special path unless
\* ModifySpecialPaths, and a top-level or no framework unless
\* CollectFrameworks
Rewritten(subDep) ==
    /\ ~nodes[subDep].NotResolved
    /\ ~nodes[subDep].Pruned \/ nodes[subDep].PrunedByFlatDeps
    /\ copts.ModifySpecialPaths \/ ~IsSpecialPath(nodes[subDep].Path)
    /\ \/ getTopDep(subDep) # Nil
       \/ copts.CollectFrameworks
       \/ Ext(nodes[subDep].Name) # ""

\* an absolute path
IsAbs(path) == path # << >> /\ path[1] = ""

\* the job of dep meets an error: the copy fails, install_name_tool rejects
\* the copy, or an edge it rewrites has no relative path or no room
JobFails(dep) ==
    \/ nodes[dep].RealPath \in Unreadable
    \/ nodes[dep].RealPath \in Rejected
    \/ \E c \in Range(Children(dep)) :
          /\ Rewritten(c)
          /\ \/ nodes[dep].RealPath \in NoRoom
             \/ /\ getTopDep(c) # Nil
                /\ ~IsAbs(nodes[getTopDep(c)].Path)

\* C21: CollectDeps returns an error exactly if the job of some selected
\* dependency met an error, and it returns, with or without an error, only
\* when every job was sent, processed and its result received.
C21_FailureIffSomeJobFailed ==
    /\ cresult = "ok" =>
          \A n \in DOMAIN toCollect : ~JobFails(toCollect[n])
    /\ cresult = "error" =>
          \E n \in DOMAIN toCollect : JobFails(toCollect[n])
    /\ cresult # "none" =>
          /\ toSend = {}
          /\ jobs = << >>
          /\ results = << >>
          /\ got = Cardinality(DOMAIN toCollect)

\* a run returned an error for a reference it could not rewrite, after
\* another job had succeeded
C21_Witness ==
    /\ cresult = "error"
    /\ \E e \in Range(errors) : e.what = "change"
    /\ \E n \in DOMAIN toCollect :
          /\ ~JobFails(toCollect[n])
          /\ n \in DOMAIN folder
          /\ folder[n] = Copy(nodes[toCollect[n]].RealPath)

\* C22: once a worker has copied a selected dependency and set its identity,
\* every edge of it that the loop rewrites and that targets a top-level was
\* rewritten to @loader_path/<rel>, rel the relative path from the folder
\* to the real path of that top-level.
C22_TopLevelEdgeRelativeToRealPath ==
    \A n \in DOMAIN toCollect :
        LET dep == toCollect[n]
        IN [op |-> "id", dest |-> n, old |-> NoPath,
            new |-> <<"@loader_path", n>>] \in tool
           /\ installNameToolOK("id", nodes[dep].RealPath) =>
              \A c \in Range(Children(dep)) :
                  Rewritten(c) /\ getTopDep(c) # Nil =>
                      [op |-> "change", dest |-> n, old |-> nodes[c].Path,
                       new |-> <<"@loader_path">>
                                 \o Rel(copts.Folder,
                                        nodes[getTopDep(c)].RealPath).path]
                          \in tool

\* C23: when CollectDeps has returned no error for a folder that was empty,
\* every reference a worker rewrote to @loader_path/<name> names a file of
\* the folder.
C23_RewrittenNamesExist ==
    (crun = 1 /\ cresult = "ok" /\ before = Empty) =>
        \A r \in tool :
            r.op = "change" /\ Len(r.new) = 2 => r.new[2] \in DOMAIN folder

\* C24: FixupToplevels returns nil and nothing else, and when it returns it
\* has visited every top-level, whatever failed for the ones before; for
\* every top-level that passed the checks it has run install_name_tool -id
\* and one -change for every edge the loop rewrites, whether or not the
\* invocations before succeeded.
C24_FixupNeverAborts ==
    /\ fresult \in {"none", "ok"}
    /\ fpc = "done" =>
          /\ fresult = "ok"
          /\ Len(fixed) = Len(deps)
          /\ \A k \in 1..Len(deps) :
                fixed[k] = "fixed" =>
                   /\ \E r \in fixes :
                         r.op = "id" /\ r.dest = nodes[deps[k]].RealPath
                   /\ \A c \in Range(Children(deps[k])) :
                         Rewritten(c) =>
                            \E r \in fixes :
                               /\ r.op = "change"
                               /\ r.dest = nodes[deps[k]].RealPath
                               /\ r.old = nodes[c].Path

\* FixupToplevels returned after lstat failed for the first top-level; it
\* fixed the second
C24_Witness ==
    /\ fpc = "done"
    /\ fixed = <<"lstat", "fixed">>
    /\ \E r \in fixes : r.dest = PW

\* C25: the second run of CollectDeps and FixupToplevels on the graph, with
\* Overwrite unset, runs install_name_tool neither on a copy nor on a
\* top-level.
C25_SecondRunInvokesNothing ==
    crun = 2 => tool = {} /\ fixes = {}

\* C25 as amended: in the second run CollectDeps selects nothing, copies
\* nothing and runs install_name_tool on no copy, while FixupToplevels,
\* which does not look at Overwrite, runs install_name_tool -id again on
\* every top-level that passes its checks.
C25_SecondRunCollectsNothing ==
    crun = 2 =>
        /\ toCollect = Empty
        /\ jobs = << >>
        /\ tool = {}
        /\ folder = before
        /\ \A k \in 1..Len(fixed) :
              fixed[k] = "fixed" =>
                 \E r \in fixes :
                    r.op = "id" /\ r.dest = nodes[deps[k]].RealPath

\* the second run has returned from both calls: the folder holds the copies
\* of the first run, and /app/a was fixed again
C25_Witness ==
    /\ crun = 2
    /\ cresult = "ok"
    /\ fpc = "done"
    /\ \E n \in DOMAIN folder : folder[n].kind = "copy"
    /\ \E r \in fixes : r.op = "change" /\ r.dest = PA

(***************************************************************************)
(* Properties of candidates that cannot be resolved                         *)
(***************************************************************************)
\* pruneDep tried to resolve the declared path of the candidate node n and
\* failed: the candidate passed the checks for weak libraries, ignored files
\* and top-levels, and resolvePath returned an error
ExpansionFailed(n) ==
    /\ ~(nodes[n].IsWeakDep /\ opts.SkipWeakLibs)
    /\ nodes[n].Name \notin Range(opts.IgnoredFiles)
    /\ ~matchesTopDep([nodes[n] EXCEPT !.RealPath = nodes[n].Path])
    /\ ~resolvePath(nodes[n].Path, nodes[Referrer(n)]).ok

\* C31: a candidate whose declared path could not be resolved is a child of
\* its referrer with NotResolved set and RealPath equal to its declared
\* path; it is not pruned, not in FlatDeps and not crawled; and at the return
\* its referrer has a child for every path its file declares.
C31_UnresolvedCandidateRecorded ==
    \A n \in Discovered :
        ExpansionFailed(n) =>
            /\ nodes[n].NotResolved
            /\ nodes[n].RealPath = nodes[n].Path
            /\ ~nodes[n].Pruned
            /\ nodes[n].Deps = Nil
            /\ n \notin Range(flat)
            /\ nodes[n].Path \notin DOMAIN flat
            /\ n \notin DOMAIN tasks
            /\ Returned =>
                  /\ <<Referrer(n), n>> \in ChildPairs
                  /\ {nodes[c].Path : c \in Range(Children(Referrer(n)))} =
                        DeclaredPaths(nodes[Referrer(n)].RealPath)

\* a recursive crawl returned with the three kinds of failure: no executable
\* path for @executable_path, the unsupported @rpath, a file that is missing
C31_Witness ==
    /\ Returned
    /\ \A t \in {"@executable_path", "@rpath", ""} :
          \E n \in Discovered :
             /\ ExpansionFailed(n)
             /\ nodes[n].Path[1] = t
             /\ nodes[n].NotResolved

(***************************************************************************)
(* Properties of the selection and of the worker pool                       *)
(***************************************************************************)
\* the entry of FlatDeps under p is not collected: not selected, not sent
\* to a worker, not copied
NotCollected(p) ==
    /\ flat[p] \notin Range(toCollect)
    /\ flat[p] \notin Range(jobs)
    /\ \A n \in DOMAIN folder : folder[n] # Copy(p)

\* C32 as stated: an entry of FlatDeps with the name of a top-level is not
\* collected.
C32_TopLevelNameNotCollected ==
    \A p \in DOMAIN flat :
        (\E k \in 1..Len(deps) : nodes[deps[k]].Name = nodes[flat[p]].Name)
            => NotCollected(p)

\* C32: an entry of FlatDeps with the name and the version information of a
\* top-level is not collected.
C32_TopLevelNameAndInfoNotCollected ==
    \A p \in DOMAIN flat :
        (\E k \in 1..Len(deps) :
            /\ nodes[deps[k]].Name = nodes[flat[p]].Name
            /\ nodes[deps[k]].Info = nodes[flat[p]].Info)
            => NotCollected(p)

\* CollectDeps returned after it collected /opt/y.dylib and passed over
\* /opt/w.dylib, which has the name and versions of the input /app/w.dylib
C32_Witness ==
    /\ cpc = "done"
    /\ nodes[<<2>>].Info = Info(65536, 65536)
    /\ <<"", "opt", "w.dylib">> \in DOMAIN flat
    /\ "y.dylib" \in DOMAIN folder
    /\ "w.dylib" \notin DOMAIN folder

\* C33: every job the workers have processed they have processed once; the
\* channel holds no job twice; once the selection is over every selected
\* dependency is in exactly one of three places: waiting to be sent, in the
\* channel, processed. The channel is closed only when nothing waits to be
\* sent, and CollectDeps returns only when every selected dependency has
\* been processed, its copy, if the source can be read, in the folder.
C33_EachJobProcessedOnce ==
    /\ \A d \in DOMAIN handled : handled[d] = 1 /\ d \in Range(toCollect)
    /\ \A i, j \in 1..Len(jobs) : jobs[i] = jobs[j] => i = j
    /\ cpc # "select" =>
          \A n \in DOMAIN toCollect :
             Cardinality({x \in {"send", "sent", "done"} :
                             \/ x = "send" /\ n \in toSend
                             \/ x = "sent" /\ toCollect[n] \in Range(jobs)
                             \/ x = "done" /\ toCollect[n] \in DOMAIN handled})
                = 1
    /\ cpc \in {"collect", "done"} => toSend = {}
    /\ cresult # "none" =>
          \A n \in DOMAIN toCollect :
             /\ toCollect[n] \in DOMAIN handled
             /\ copyFileOK(nodes[toCollect[n]].RealPath) =>
                   /\ n \in DOMAIN folder
                   /\ folder[n] = Copy(nodes[toCollect[n]].RealPath)

\* CollectDeps returned after two workers had processed three jobs and
\* left
C33_Witness ==
    /\ cresult # "none"
    /\ Cardinality(DOMAIN toCollect) = 3
    /\ Cardinality(DOMAIN workers) = 2
    /\ \A w \in DOMAIN workers : workers[w].pc = "done"
    /\ Cardinality(DOMAIN handled) = 3

\* the errors the workers hold for the job of dep
JobErrors(d) ==
    {e \in UNION {Range(workers[w].errList) : w \in DOMAIN workers} :
        e.dep = d}

\* C34: for a job the workers have processed: if the copy failed,
\* install_name_tool was not run on the destination; if install_name_tool
\* -id failed, it was run with -id and with no -change; otherwise it was run
\* with -id and with -change; and each failure left an error of the job.
C34_CopyThenIdThenChange ==
    \A d \in DOMAIN handled :
        LET n == nodes[d].Name
            ran == {r.op : r \in {x \in tool : x.dest = n}}
        IN IF ~copyFileOK(nodes[d].RealPath)
           THEN /\ ran = {}
                /\ \E e \in JobErrors(d) : e.what = "copy"
           ELSE IF ~installNameToolOK("id", nodes[d].RealPath)
           THEN /\ ran = {"id"}
                /\ \E e \in JobErrors(d) : e.what = "id"
                /\ \A e \in JobErrors(d) : e.what = "id"
           ELSE /\ "id" \in ran
                /\ (\E c \in Range(Children(d)) : Rewritten(c))
                       => "change" \in ran
                /\ (/\ \E c \in Range(Children(d)) : Rewritten(c)
                    /\ ~installNameToolOK("change", nodes[d].RealPath))
                       => \E e \in JobErrors(d) : e.what = "change"

\* the workers have processed a job whose copy failed and one whose identity
\* could not be set although it has a reference to rewrite
C34_Witness ==
    /\ \E d \in DOMAIN handled : ~copyFileOK(nodes[d].RealPath)
    /\ \E d \in DOMAIN handled :
          /\ copyFileOK(nodes[d].RealPath)
          /\ ~installNameToolOK("id", nodes[d].RealPath)
          /\ \E c \in Range(Children(d)) : Rewritten(c)

\* the edge to the child c is one the loops pass over: c is not resolved,
\* pruned by the crawl, or has a special path while ModifySpecialPaths is
\* unset
PassedOver(c) ==
    \/ nodes[c].NotResolved
    \/ nodes[c].Pruned /\ ~nodes[c].PrunedByFlatDeps
    \/ IsSpecialPath(nodes[c].Path) /\ ~copts.ModifySpecialPaths

\* C35: install_name_tool -change is run for no edge that is passed over,
\* neither by a worker on the copy of a selected dependency nor by
\* FixupToplevels on a top-level.
C35_NoChangeForSkippedEdge ==
    /\ \A d \in DOMAIN handled :
          \A c \in Range(Children(d)) :
             PassedOver(c) =>
                \A r \in tool :
                   ~(/\ r.op = "change"
                     /\ r.dest = nodes[d].Name
                     /\ r.old = nodes[c].Path)
    /\ \A k \in 1..Len(fixed) :
          \A c \in Range(Children(deps[k])) :
             PassedOver(c) =>
                \A r \in fixes :
                   ~(/\ r.op = "change"
                     /\ r.dest = nodes[deps[k]].RealPath
                     /\ r.old = nodes[c].Path)

\* a worker has rewritten the reference of /opt/x.dylib to /opt/v.dylib
\* and FixupToplevels references of /app/a; /opt/x.dylib has a pruned
\* child, a child that is not resolved and a resolved child with a special
\* path, which ModifySpecialPaths spares, /app/a the first two
C35_Witness ==
    /\ ~copts.ModifySpecialPaths
    /\ fpc = "done"
    /\ fixed[1] = "fixed"
    /\ \E r \in fixes : r.op = "change" /\ r.dest = PA
    /\ \E r \in tool : r.op = "change" /\ r.dest = "x.dylib"
    /\ \A d \in {<<1>>, <<1, 5>>} :
          /\ \E c \in Range(Children(d)) : nodes[c].NotResolved
          /\ \E c \in Range(Children(d)) : nodes[c].Pruned
    /\ \E c \in Range(Children(<<1, 5>>)) :
          IsSpecialPath(nodes[c].Path) /\ ~nodes[c].NotResolved

(***************************************************************************)
(* Top-levels FixupToplevels passes over                                    *)
(***************************************************************************)
\* C36: for a top-level that is NotResolved or whose given path is a
\* symbolic link, FixupToplevels calls neither os.Chmod nor
\* install_name_tool (-id or -change) on its file, and it goes on to the
\* top-levels after it: when it returns it has visited every top-level.
C36_SkippedToplevelUntouched ==
    /\ \A k \in 1..Len(fixed) :
          \/ nodes[deps[k]].NotResolved
          \/ IsSymlink(nodes[deps[k]].Path)
          => /\ fixed[k] \in {"unresolved", "lstat", "symlink"}
             /\ \A r \in fixes : r.dest # nodes[deps[k]].RealPath
    /\ fpc = "done" => Len(fixed) = Len(deps)

\* FixupToplevels has returned: it fixed /app/a, with an install_name_tool
\* -change among its invocations, and passed over /app/w.dylib, which is
\* NotResolved
C36_Witness ==
    /\ fpc = "done"
    /\ nodes[<<2>>].NotResolved
    /\ fixed = <<"fixed", "unresolved">>
    /\ \E r \in fixes : r.op = "change" /\ r.dest = PA

(***************************************************************************)
(* Termination of DepsRead                                                  *)
(***************************************************************************)
\* every token of the limiter is in the channel or with a call that is
\* inside ReadDylibs
TokensAccounted ==
    mainpc \in {"wait", "returned"} /\ ~Sequential =>
        limiter + Cardinality(Parsing) = opts.Jobs

\* depsRead was started once for every top-level and once for every key of
\* FlatDeps at most
TasksBounded ==
    Cardinality(DOMAIN tasks) <= Len(deps) + Cardinality(DOMAIN flat)

\* a step that takes a token from the limiter is no step of pruneDep, which
\* holds fdLock: it leaves the graph as it is
TakesTokenOutsideLock ==
    limiter' < limiter => UNCHANGED <<nodes, lists, flat>>

\* C37: under fair scheduling DepsRead returns, for every value of Jobs and
\* also when libraries load each other in a cycle; ReadDylibs gives its
\* token back however it returns, no call of depsRead waits for a token
\* while it holds fdLock, and depsRead is started at most once for every
\* top-level and every key of FlatDeps.
C37_DepsReadTerminates ==
    /\ []TokensAccounted
    /\ []TasksBounded
    /\ [][TakesTokenOutsideLock]_vars
    /\ <>(mainpc \in {"returned", "error"})

\* a parallel crawl has returned with all its tokens: it started more calls
\* of depsRead than it has tokens, ReadDylibs failed for /lib/d, and /lib/b
\* and /lib/c load each other
C37_Witness ==
    /\ mainpc = "returned"
    /\ ~Sequential
    /\ limiter = opts.Jobs
    /\ Cardinality(DOMAIN tasks) > opts.Jobs
    /\ \E t \in DOMAIN tasks :
          nodes[t].RealPath = PD /\ nodes[t].NotResolved
    /\ \E b, c \in DOMAIN tasks :
          /\ nodes[b].RealPath = PB
          /\ nodes[c].RealPath = PC
          /\ \E x \in Range(Children(b)) : nodes[x].RealPath = PC
          /\ \E x \in Range(Children(c)) : nodes[x].RealPath = PB

(***************************************************************************)
(* Termination of CollectDeps                                               *)
(***************************************************************************)
\* a worker that has received a job finds room in results for its errList
ResultsHaveRoom ==
    jobs # << >> => Len(results) < resultsCap

\* CollectDeps returns after it received one errList for every entry of
\* toCollect, and no errList is left in results
OneResultPerJob ==
    cpc = "done" =>
        /\ got = Cardinality(DOMAIN toCollect)
        /\ Cardinality(DOMAIN handled) = Cardinality(DOMAIN toCollect)
        /\ results = << >>

\* C38: under fair scheduling CollectDeps returns, for every number of
\* selected dependencies and every value of Jobs (a value <= 0 runs one
\* worker): the dispatcher gets every job into the jobs channel and closes
\* it, no worker finds results full, CollectDeps receives exactly one
\* result for every selected dependency, and every worker exits.
C38_CollectDepsTerminates ==
    /\ []ResultsHaveRoom
    /\ []OneResultPerJob
    /\ [](cpc \in {"collect", "done"} => toSend = {})
    /\ <>(cpc = "done")
    /\ <>[](\A w \in DOMAIN workers : workers[w].pc = "done")

\* CollectDeps was called with Jobs = 0 and selected more dependencies than
\* the single worker and the jobs channel hold together; it has returned and
\* the worker has exited
C38_Witness ==
    /\ cpc = "done"
    /\ DOMAIN workers = {1}
    /\ workers[1].pc = "done"
    /\ Cardinality(DOMAIN toCollect) = MaxLibs
    /\ got = MaxLibs

(***************************************************************************)
(* The errors CollectDeps returns                                           *)
(***************************************************************************)
\* the errors the loop body of collectorWorker appends for the job of dep
OwnErrors(dep) == processJob(dep, << >>).errList

\* how often errors holds an error of the job of dep
Reported(dep) == Cardinality({i \in DOMAIN errors : errors[i].dep = dep})

\* the list a worker sends holds errors of the job it has just processed
\* only
SendsOwnErrors ==
    Len(results') > Len(results) =>
        \A e \in Range(results'[Len(results')]) : e.dep = Head(jobs)

\* C39: the list a worker sends for a job holds the errors of that job only,
\* and the failure CollectDeps returns holds each error of each job once,
\* also when one worker processed several jobs.
C39_ErrorsOncePerJob ==
    /\ [][SendsOwnErrors]_vars
    /\ [](cpc = "done" =>
             \A d \in DOMAIN handled : Reported(d) = Len(OwnErrors(d)))

(***************************************************************************)
(* References to top-levels whose relative path cannot be computed          *)
(***************************************************************************)
\* the worker reaches filepath.Rel for the edge from the copy of dep to the
\* child c, and filepath.Rel returns an error
RelFails(dep, c) ==
    /\ ~skipsEdge(c)
    /\ getTopDep(c) # Nil
    /\ ~Rel(copts.Folder, nodes[getTopDep(c)].Path).ok

\* C40: when a worker cannot compute the relative path from the folder to
\* the top-level a child of the job stands for, it records an error of the
\* job and does not run install_name_tool -change for that child.
C40_NoChangeWithoutRelativePath ==
    \A d \in DOMAIN handled :
        /\ copyFileOK(nodes[d].RealPath)
        /\ installNameToolOK("id", nodes[d].RealPath)
        => \A c \in Range(Children(d)) :
              RelFails(d, c) =>
                 /\ \E e \in JobErrors(d) : e.what = "rel"
                 /\ \A r \in tool :
                       ~(/\ r.op = "change"
                         /\ r.dest = nodes[d].Name
                         /\ r.old = nodes[c].Path)

====
